---- MODULE Spec2Model ----
(***************************************************************************)
(* Model of the authentication / authorization gate of the Study Abroad    *)
(* SaaS platform: the JWT utilities (utils/jwt), the auth middleware       *)
(* (middleware/auth), the global error handler                             *)
(* (middleware/errorMiddleware) and the rate limiters                      *)
(* (middleware/rateLimiter, express-rate-limit over its memory store), the  *)
(* hooks and methods of the Client and SuperAdmin models, and the slices   *)
(* of the client's store (theme, auth, notifications).                     *)
(*                                                                         *)
(* JSON objects are functions from field names to values; a field that is  *)
(* absent is simply outside the DOMAIN.  The JavaScript value `undefined`  *)
(* is the string Undefined.  Time is in seconds, as in the iat/exp claims. *)
(***************************************************************************)
EXTENDS Integers, Sequences, FiniteSets, TLC

VARIABLES
    now,        \* Math.floor(Date.now() / 1000)
    ticks,      \* number of clock advances so far (bounded)
    input,      \* the payload handed to the last generator call
    made,       \* the tokens returned by the last generator call
    presented,  \* the token handed to a verification function
    vresult,    \* outcome of verifyToken(presented)
    rresult,    \* outcome of verifyPasswordResetToken(presented)
    superAdmins, \* SuperAdmin collection: the ids that have a document
    clients,    \* Client collection: id -> status, "absent" if no document
    agencies,   \* Agency collection: id -> status, "absent" if no document
    req,        \* the request travelling through the middleware chain
    hits,       \* the limiters' stores: limiter -> key -> hits in the window
    seen,       \* limiter -> key -> requests that reached it in the window
    inflight,   \* requests whose handler has not answered yet, by kind
                \* and by whether they arrived in an earlier window
    tally,      \* ip -> login attempts that arrived in the window of
                \* authRateLimiter and were answered 401 / 429
    last,       \* what the limiters decided for the request that just arrived
    reachable,  \* whether the database answers the queries
    tenants,    \* agencies by the client that owns them: id -> clientId, status
    creations,  \* the requests that create an agency: what each has read so far
    log,        \* what the logger was given for the request being served
    eresult,    \* outcome of isTokenExpired(presented)
    deletions,  \* the document deleteOne calls on super admins in progress
    notifications, \* the store's notifications slice
    auth,       \* the store's auth slice
    theme,      \* the store's theme slice
    localStorage, \* the browser's localStorage: key -> string
    classList   \* document.documentElement.classList

tokVars == <<now, ticks, input, made, presented, vresult, rresult, eresult>>

storeVars == <<superAdmins, clients, agencies, reachable>>

gateVars == <<storeVars, req>>

rateVars == <<hits, seen, inflight, tally, last>>

limitVars == <<tenants, creations>>

adminVars == <<deletions>>

clientVars == <<notifications, auth, theme, localStorage, classList>>

vars == <<tokVars, gateVars, rateVars, limitVars, adminVars, clientVars, log>>

----------------------------------------------------------------------------
(* Bounds *)

MaxTicks == 2

\* requests being handled at the same time
MaxInflight == 2

\* requests that create an agency at the same time
MaxCreations == 2

\* deleteOne calls on super admin documents at the same time
MaxDeletions == 2

\* clock advances while notifications arrive
MaxClock == 1

\* notifications in the list while the cap is the default one
MaxList == 3

\* the largest cap that updateSettings sets
MaxCap == 2

----------------------------------------------------------------------------
(* Program constants *)

JWT_SECRET == "server-secret"
JWT_EXPIRES_IN == 604800
JWT_REFRESH_EXPIRES_IN == 2592000
RESET_EXPIRES_IN == 3600

ISSUER == "study-abroad-saas"
AUD_USERS == "saas-users"
AUD_RESET == "password-reset"

SUPER_ADMIN == "super_admin"
CLIENT == "client"
AGENCY_ADMIN == "admin"
AGENCY_EDITOR == "editor"
AGENCY_VIEWER == "viewer"

USER_ROLES == {SUPER_ADMIN, CLIENT, AGENCY_ADMIN, AGENCY_EDITOR, AGENCY_VIEWER}

MANAGE_STUDENTS == "manage_students"
MANAGE_CONTENT == "manage_content"

----------------------------------------------------------------------------
(* JSON objects *)

Undefined == "undefined"

EmptyObj == [f \in {} |-> Undefined]

\* obj[f], or undefined when the property is absent
Get(obj, f) == IF f \in DOMAIN obj THEN obj[f] ELSE Undefined

\* { ...a, ...b }: the properties of b override those of a
Spread(a, b) ==
    [f \in (DOMAIN a) \cup (DOMAIN b) |-> IF f \in DOMAIN b THEN b[f] ELSE a[f]]

\* The properties that hold strings (the only ones that can hold undefined
\* here: permissions is an array and iat/exp are numbers).
StringFields == {"userId", "email", "role", "agencyId", "type", "iss", "aud"}

\* JSON.parse(JSON.stringify(obj)): properties whose value is undefined are dropped
JsonRoundTrip(obj) ==
    [f \in {g \in DOMAIN obj : ~(g \in StringFields /\ obj[g] = Undefined)} |-> obj[f]]

----------------------------------------------------------------------------
(* jsonwebtoken, as used by utils/jwt *)

\* A token is the signing key, the signed payload, and whether the string
\* has the shape of a JWT at all.
Garbage == [form |-> "garbage", key |-> "", payload |-> EmptyObj]

NoToken == [form |-> "none", key |-> "", payload |-> EmptyObj]

\* jwt.sign(payload, secret, {expiresIn, issuer, audience}) at time t
JwtSign(payload, secret, expiresIn, issuer, audience, t) ==
    [form |-> "jwt",
     key |-> secret,
     payload |-> JsonRoundTrip(Spread(payload,
                    [iat |-> t, exp |-> t + expiresIn, iss |-> issuer, aud |-> audience]))]

Ok(v) == [ok |-> TRUE, value |-> v, name |-> "", message |-> ""]

Thrown(n, m) == [ok |-> FALSE, value |-> EmptyObj, name |-> n, message |-> m]

\* jwt.verify without the audience option
JwtVerifyNoAudience(token, secret, issuer, audience, t) ==
    IF token.form # "jwt" THEN Thrown("JsonWebTokenError", "jwt malformed")
    ELSE IF token.key # secret THEN Thrown("JsonWebTokenError", "invalid signature")
    ELSE IF "exp" \in DOMAIN token.payload /\ t >= token.payload["exp"]
        THEN Thrown("TokenExpiredError", "jwt expired")
    ELSE IF Get(token.payload, "iss") # issuer
        THEN Thrown("JsonWebTokenError", "jwt issuer invalid")
    ELSE Ok(token.payload)

\* jwt.verify checking audience and issuer before exp
JwtVerifyAudienceFirst(token, secret, issuer, audience, t) ==
    IF token.form # "jwt" THEN Thrown("JsonWebTokenError", "jwt malformed")
    ELSE IF token.key # secret THEN Thrown("JsonWebTokenError", "invalid signature")
    ELSE IF Get(token.payload, "aud") # audience
        THEN Thrown("JsonWebTokenError", "jwt audience invalid")
    ELSE IF Get(token.payload, "iss") # issuer
        THEN Thrown("JsonWebTokenError", "jwt issuer invalid")
    ELSE IF "exp" \in DOMAIN token.payload /\ t >= token.payload["exp"]
        THEN Thrown("TokenExpiredError", "jwt expired")
    ELSE Ok(token.payload)

\* jwt.verify checking exp before the signature
JwtVerifyExpFirst(token, secret, issuer, audience, t) ==
    IF token.form # "jwt" THEN Thrown("JsonWebTokenError", "jwt malformed")
    ELSE IF "exp" \in DOMAIN token.payload /\ t >= token.payload["exp"]
        THEN Thrown("TokenExpiredError", "jwt expired")
    ELSE IF token.key # secret THEN Thrown("JsonWebTokenError", "invalid signature")
    ELSE IF Get(token.payload, "aud") # audience
        THEN Thrown("JsonWebTokenError", "jwt audience invalid")
    ELSE IF Get(token.payload, "iss") # issuer
        THEN Thrown("JsonWebTokenError", "jwt issuer invalid")
    ELSE Ok(token.payload)

\* jwt.verify(token, secret, {issuer, audience}) at time t: shape, then
\* signature, then exp, then audience, then issuer.
JwtVerify(token, secret, issuer, audience, t) ==
    IF token.form # "jwt" THEN Thrown("JsonWebTokenError", "jwt malformed")
    ELSE IF token.key # secret THEN Thrown("JsonWebTokenError", "invalid signature")
    ELSE IF "exp" \in DOMAIN token.payload /\ t >= token.payload["exp"]
        THEN Thrown("TokenExpiredError", "jwt expired")
    ELSE IF Get(token.payload, "aud") # audience
        THEN Thrown("JsonWebTokenError", "jwt audience invalid")
    ELSE IF Get(token.payload, "iss") # issuer
        THEN Thrown("JsonWebTokenError", "jwt issuer invalid")
    ELSE Ok(token.payload)

\* error instanceof jwt.TokenExpiredError
IsTokenExpiredError(r) == r.name = "TokenExpiredError"

\* error instanceof jwt.JsonWebTokenError (TokenExpiredError is a subclass)
IsJsonWebTokenError(r) == r.name \in {"JsonWebTokenError", "TokenExpiredError"}

\* jwt.decode(token): the payload without any verification, null if unparsable
JwtDecode(token) ==
    IF token.form = "jwt" THEN Ok(token.payload) ELSE Thrown("null", "")

----------------------------------------------------------------------------
(* utils/jwt *)

\* generateAccessToken copying named fields instead of spreading the payload
generateAccessTokenPicked(payload, t) ==
    JwtSign([userId |-> Get(payload, "userId"),
             email |-> Get(payload, "email"),
             role |-> Get(payload, "role"),
             permissions |-> payload["permissions"],
             type |-> "access"],
            JWT_SECRET, JWT_EXPIRES_IN, ISSUER, AUD_USERS, t)

generateAccessToken(payload, t) ==
    JwtSign(Spread(payload, [type |-> "access"]), JWT_SECRET,
            JWT_EXPIRES_IN, ISSUER, AUD_USERS, t)

\* generateRefreshToken spreading the payload instead of copying named fields
generateRefreshTokenSpread(payload, t) ==
    JwtSign(Spread(payload, [type |-> "refresh"]), JWT_SECRET,
            JWT_REFRESH_EXPIRES_IN, ISSUER, AUD_USERS, t)

generateRefreshToken(payload, t) ==
    JwtSign([userId |-> Get(payload, "userId"),
             email |-> Get(payload, "email"),
             role |-> Get(payload, "role"),
             type |-> "refresh"],
            JWT_SECRET, JWT_REFRESH_EXPIRES_IN, ISSUER, AUD_USERS, t)

generateTokens(payload, t) ==
    [accessToken |-> generateAccessToken(payload, t),
     refreshToken |-> generateRefreshToken(
                        [userId |-> Get(payload, "userId"),
                         email |-> Get(payload, "email"),
                         role |-> Get(payload, "role"),
                         agencyId |-> Get(payload, "agencyId")], t)]

verifyToken(token, t) ==
    LET r == JwtVerify(token, JWT_SECRET, ISSUER, AUD_USERS, t)
    IN  IF r.ok THEN r
        ELSE IF IsTokenExpiredError(r) THEN Thrown("Error", "Token expired")
        ELSE IF IsJsonWebTokenError(r) THEN Thrown("Error", "Invalid token")
        ELSE Thrown("Error", "Token verification failed")

decodeToken(token) == JwtDecode(token)

\* `!decoded || !decoded.exp` holds for null, for a payload without exp and
\* for exp = 0; otherwise the answer is decoded.exp < currentTime.
isTokenExpired(token, t) ==
    LET decoded == decodeToken(token)
    IN  IF ~decoded.ok THEN TRUE
        ELSE IF "exp" \notin DOMAIN decoded.value \/ decoded.value["exp"] = 0 THEN TRUE
        ELSE decoded.value["exp"] < t

generatePasswordResetToken(userId, email, t) ==
    JwtSign([userId |-> userId, email |-> email, type |-> "password_reset"],
            JWT_SECRET, RESET_EXPIRES_IN, ISSUER, AUD_RESET, t)

verifyPasswordResetToken(token, t) ==
    LET r == JwtVerify(token, JWT_SECRET, ISSUER, AUD_RESET, t)
        \* what the try block produces: the kind check throws a plain Error
        body == IF ~r.ok THEN r
                ELSE IF Get(r.value, "type") # "password_reset"
                    THEN Thrown("Error", "Invalid token type")
                ELSE Ok([userId |-> Get(r.value, "userId"),
                         email |-> Get(r.value, "email")])
    IN  \* the catch block rewrites whatever the try block threw
        IF body.ok THEN body
        ELSE IF IsTokenExpiredError(body)
            THEN Thrown("Error", "Password reset token expired")
        ELSE IF IsJsonWebTokenError(body)
            THEN Thrown("Error", "Invalid password reset token")
        ELSE Thrown("Error", "Password reset token verification failed")

----------------------------------------------------------------------------
(* Inputs of the token utilities *)

UserIds == {"u1", "u2"}

EmailOf(u) == IF u = "u1" THEN "u1@mail" ELSE "u2@mail"

PermissionSets == {{}, {MANAGE_STUDENTS}, {MANAGE_STUDENTS, MANAGE_CONTENT}}

\* JWTPayload values: agencyId is optional, so it is absent, undefined or set
Principals ==
    LET base == {[userId |-> u, email |-> EmailOf(u), role |-> r, permissions |-> ps] :
                    u \in UserIds, r \in USER_ROLES, ps \in PermissionSets}
    IN  base \cup {Spread(b, [agencyId |-> a]) : b \in base, a \in {Undefined, "a1"}}

Jumps == {RESET_EXPIRES_IN, JWT_EXPIRES_IN, JWT_REFRESH_EXPIRES_IN}

\* Strings a caller can hand to a verification function in place of the
\* token tok it was given: tok itself, the same claims signed with another
\* key, tok's claims with another audience, kind or issuer under the
\* server's key, or a string that is no JWT.
Variants(tok) ==
    {tok, Garbage, [tok EXCEPT !.key = "other-secret"]}
    \cup {[tok EXCEPT !.payload = Spread(tok.payload, [aud |-> a])] :
            a \in {AUD_USERS, AUD_RESET}}
    \cup {[tok EXCEPT !.payload = Spread(tok.payload, [type |-> ty])] :
            ty \in {"access", "refresh", "password_reset"}}
    \cup {[tok EXCEPT !.payload = Spread(tok.payload, [iss |-> "other-issuer"])]}

NoResult == [ok |-> FALSE, value |-> EmptyObj, name |-> "none", message |-> ""]

\* isTokenExpired has not been asked about the presented token
NoAnswer == [called |-> FALSE, returned |-> FALSE]

NoneMade == [src |-> "none", at |-> 0, accessToken |-> NoToken,
             refreshToken |-> NoToken, resetToken |-> NoToken]

MadeTokens == {made.accessToken, made.refreshToken, made.resetToken} \ {NoToken}

----------------------------------------------------------------------------
(* The token utilities as a state machine: a generator call, then the     *)
(* caller presents a token to the verification functions as time passes.  *)

TokIdle ==
    /\ input = EmptyObj
    /\ made = NoneMade
    /\ presented = NoToken
    /\ vresult = NoResult
    /\ rresult = NoResult
    /\ eresult = NoAnswer

Idle == [phase |-> "idle", header |-> [present |-> FALSE, parts |-> <<>>],
         ip |-> "", method |-> "", userAgent |-> "",
         path |-> "", params |-> EmptyObj,
         chain |-> <<>>, pc |-> 0, trace |-> <<>>,
         user |-> EmptyObj, agency |-> "none",
         statusCode |-> 0, error |-> ""]

GateIdle ==
    /\ superAdmins = {}
    /\ clients = [u \in {} |-> "absent"]
    /\ agencies = [a \in {} |-> "absent"]
    /\ reachable = TRUE
    /\ req = Idle

NoDecision == [route |-> "", ip |-> "", subdomain |-> "", statusCode |-> 0, by |-> ""]

RateIdle ==
    /\ hits = <<>>
    /\ seen = <<>>
    /\ inflight = <<>>
    /\ tally = <<>>
    /\ last = NoDecision

LimitIdle ==
    /\ tenants = <<>>
    /\ creations = <<>>

AdminIdle == deletions = <<>>

ClientIdle ==
    /\ notifications = EmptyObj
    /\ auth = EmptyObj
    /\ theme = EmptyObj
    /\ localStorage = EmptyObj
    /\ classList = {}

TokInit ==
    /\ now = 0
    /\ ticks = 0
    /\ TokIdle
    /\ GateIdle
    /\ RateIdle
    /\ LimitIdle
    /\ log = <<>>
    /\ AdminIdle
    /\ ClientIdle

Tick ==
    /\ ticks < MaxTicks
    /\ \E d \in Jumps : now' = now + d
    /\ ticks' = ticks + 1
    /\ vresult' = NoResult
    /\ rresult' = NoResult
    /\ eresult' = NoAnswer
    /\ UNCHANGED <<input, made, presented, gateVars, rateVars, limitVars, adminVars, clientVars, log>>

\* The utilities keep no state between calls, so a run follows the tokens
\* of one generator call.
Generated(p, m) ==
    /\ made = NoneMade
    /\ input' = p
    /\ made' = m
    /\ presented' = NoToken
    /\ vresult' = NoResult
    /\ rresult' = NoResult
    /\ eresult' = NoAnswer
    /\ UNCHANGED <<now, ticks, gateVars, rateVars, limitVars, adminVars, clientVars, log>>

GenerateAccessToken ==
    \E p \in Principals :
        Generated(p, [NoneMade EXCEPT !.src = "access", !.at = now,
                        !.accessToken = generateAccessToken(p, now)])

GenerateRefreshToken ==
    \E p \in Principals :
        Generated(p, [NoneMade EXCEPT !.src = "refresh", !.at = now,
                        !.refreshToken = generateRefreshToken(p, now)])

GenerateTokens ==
    \E p \in Principals :
        LET pair == generateTokens(p, now)
        IN  Generated(p, [NoneMade EXCEPT !.src = "pair", !.at = now,
                            !.accessToken = pair.accessToken,
                            !.refreshToken = pair.refreshToken])

GeneratePasswordResetToken ==
    \E u \in UserIds :
        Generated([userId |-> u, email |-> EmailOf(u)],
                  [NoneMade EXCEPT !.src = "reset", !.at = now,
                    !.resetToken = generatePasswordResetToken(u, EmailOf(u), now)])

Present ==
    /\ \E tok \in MadeTokens : \E v \in Variants(tok) : presented' = v
    /\ vresult' = NoResult
    /\ rresult' = NoResult
    /\ eresult' = NoAnswer
    /\ UNCHANGED <<now, ticks, input, made, gateVars, rateVars, limitVars, adminVars, clientVars, log>>

VerifyToken ==
    /\ presented # NoToken
    /\ vresult' = verifyToken(presented, now)
    /\ UNCHANGED <<now, ticks, input, made, presented, rresult, eresult, gateVars, rateVars, limitVars, adminVars, clientVars, log>>

VerifyPasswordResetToken ==
    /\ presented # NoToken
    /\ rresult' = verifyPasswordResetToken(presented, now)
    /\ UNCHANGED <<now, ticks, input, made, presented, vresult, eresult, gateVars, rateVars, limitVars, adminVars, clientVars, log>>

TokNext ==
    \/ Tick
    \/ GenerateAccessToken
    \/ GenerateRefreshToken
    \/ GenerateTokens
    \/ GeneratePasswordResetToken
    \/ Present
    \/ VerifyToken
    \/ VerifyPasswordResetToken

SpecToken == TokInit /\ [][TokNext]_vars

\* The caller asks isTokenExpired and verifyToken about the same token at
\* the same clock value.
IsTokenExpired ==
    /\ presented # NoToken
    /\ eresult' = [called |-> TRUE, returned |-> isTokenExpired(presented, now)]
    /\ UNCHANGED <<now, ticks, input, made, presented, vresult, rresult,
                   gateVars, rateVars, limitVars, adminVars, clientVars, log>>

ExpiryNext ==
    \/ Tick
    \/ GenerateAccessToken
    \/ GenerateRefreshToken
    \/ GenerateTokens
    \/ Present
    \/ VerifyToken
    \/ IsTokenExpired

SpecExpiry == TokInit /\ [][ExpiryNext]_vars

----------------------------------------------------------------------------
(* Token claims, checked under SpecToken *)

\* presented is the genuine token tok of the last generator call and
\* verifyToken has been applied to it at the current time
Verified(tok) == tok # NoToken /\ presented = tok /\ vresult # NoResult

Expired(tok) == "exp" \in DOMAIN tok.payload /\ tok.payload["exp"] < now

GoodReset(tok) ==
    /\ tok.form = "jwt"
    /\ tok.key = JWT_SECRET
    /\ ~("exp" \in DOMAIN tok.payload /\ now >= tok.payload["exp"])
    /\ Get(tok.payload, "aud") = AUD_RESET
    /\ Get(tok.payload, "iss") = ISSUER

\* C5: verifyPasswordResetToken returns {userId, email} only for a validly
\* signed, unexpired token of audience password-reset and kind
\* password_reset; session tokens are rejected; a password-reset-audience
\* token of another kind fails with the outcome of the kind check
\* (WrongTokenKind, the error "Invalid token type").
C5_ResetVerification ==
    rresult # NoResult =>
        /\ rresult.ok =>
            /\ GoodReset(presented)
            /\ Get(presented.payload, "type") = "password_reset"
            /\ rresult.value = [userId |-> Get(presented.payload, "userId"),
                                email |-> Get(presented.payload, "email")]
        /\ presented \in {made.accessToken, made.refreshToken} \ {NoToken} => ~rresult.ok
        /\ (GoodReset(presented) /\ Get(presented.payload, "type") # "password_reset") =>
                (~rresult.ok /\ rresult.message = "Invalid token type")

\* C6 as stated: a token whose exp is in the past yields the expired-token
\* outcome whether or not its signature is valid.
C6_ExpiredWhateverSignature ==
    (vresult # NoResult /\ presented.form = "jwt" /\ Expired(presented)) =>
        (~vresult.ok /\ vresult.message = "Token expired")

\* C6 amended: a token signed with the configured secret whose exp is in the
\* past yields the expired-token outcome, whatever its audience, issuer or
\* kind; an expired token with a bad signature yields the invalid-token
\* outcome.
C6_ExpiredIfSigned ==
    (vresult # NoResult /\ presented.form = "jwt" /\ Expired(presented)) =>
        /\ ~vresult.ok
        /\ vresult.message = IF presented.key = JWT_SECRET
                                THEN "Token expired" ELSE "Invalid token"

C6_Witness ==
    /\ vresult # NoResult
    /\ presented.form = "jwt"
    /\ Expired(presented)
    /\ presented.key = JWT_SECRET
    /\ vresult.message = "Token expired"

\* C7: a token signed with a secret other than the configured one yields the
\* invalid-token outcome and never a principal, expired or not.
C7_ForeignSecretInvalid ==
    (vresult # NoResult /\ presented.form = "jwt" /\ presented.key # JWT_SECRET) =>
        (~vresult.ok /\ vresult.message = "Invalid token")

C7_Witness ==
    /\ vresult # NoResult
    /\ presented.form = "jwt"
    /\ presented.key # JWT_SECRET
    /\ Expired(presented)
    /\ vresult.message = "Invalid token"

\* the access token of the last generator call was verified before its expiry
AccessRoundTrip ==
    /\ made.src \in {"access", "pair"}
    /\ Verified(made.accessToken)
    /\ now < made.at + JWT_EXPIRES_IN

\* the properties of obj that hold a value
Fields(obj) == {f \in DOMAIN obj : ~(f \in StringFields /\ obj[f] = Undefined)}

\* C8 as stated: verifyToken(generateAccessToken(P)) before expiry returns
\* claims equal to P on every field of P, and the only added fields are the
\* timing claims.
C8_RoundTripOnlyTiming ==
    AccessRoundTrip =>
        /\ vresult.ok
        /\ \A f \in DOMAIN input : Get(vresult.value, f) = input[f]
        /\ (DOMAIN vresult.value) \ Fields(input) \subseteq {"iat", "exp"}

\* C8 amended: verifyToken(generateAccessToken(P)) before expiry returns
\* claims equal to P on every field of P; the added fields are the timing
\* claims iat and exp together with type, iss and aud.
C8_RoundTrip ==
    AccessRoundTrip =>
        /\ vresult.ok
        /\ \A f \in DOMAIN input : Get(vresult.value, f) = input[f]
        /\ (DOMAIN vresult.value) \ Fields(input) = {"iat", "exp", "type", "iss", "aud"}
        /\ vresult.value["iat"] = made.at
        /\ vresult.value["exp"] = made.at + JWT_EXPIRES_IN

C8_Witness ==
    /\ AccessRoundTrip
    /\ vresult.ok
    /\ Get(input, "agencyId") = "a1"
    /\ input["permissions"] # {}
    /\ now > made.at

\* C9: the refresh token issued by generateRefreshToken or generateTokens
\* never contains a non-empty permissions field, whatever the principal.
C9_RefreshWithoutPermissions ==
    made.refreshToken # NoToken =>
        \/ "permissions" \notin DOMAIN made.refreshToken.payload
        \/ made.refreshToken.payload["permissions"] = {}

C9_Witness ==
    /\ made.src = "pair"
    /\ made.refreshToken # NoToken
    /\ input["permissions"] # {}

----------------------------------------------------------------------------
(* middleware/errorMiddleware *)

\* An error object: name, message and, for a CustomError, a status code
\* (0 when the object has no statusCode property).
NoError == [name |-> "", message |-> "", statusCode |-> 0]

CustomError(message, statusCode) ==
    [name |-> "Error", message |-> message, statusCode |-> statusCode]

unauthorizedError(message) == CustomError(message, 401)

forbiddenError(message) == CustomError(message, 403)

\* a plain Error thrown by utils/jwt, as seen by a catch block
PlainError(r) == [name |-> r.name, message |-> r.message, statusCode |-> 0]

\* errorHandler(err): the status and the error text of the response
errorHandler(err) ==
    LET error ==
            IF err.name = "TokenExpiredError" THEN CustomError("Token has expired", 401)
            ELSE IF err.name = "JsonWebTokenError" THEN CustomError("Invalid token", 401)
            ELSE IF err.name = "CastError" THEN CustomError("Resource not found", 404)
            ELSE err
    IN  [statusCode |-> IF error.statusCode # 0 THEN error.statusCode ELSE 500,
         error |-> IF error.message # "" THEN error.message ELSE "Internal server error"]

----------------------------------------------------------------------------
(* Authorization header *)

\* One space-separated part of the header: its text and, when the text is
\* a serialized token, that token.
Word(text) == [text |-> text, token |-> Garbage]

TokenPart(tok) == [text |-> "<jwt>", token |-> tok]

NullPart == [text |-> "null", token |-> NoToken]

NoHeader == [present |-> FALSE, parts |-> <<>>]

Header(parts) == [present |-> TRUE, parts |-> parts]

\* extractTokenFromHeader comparing the scheme without regard to case
extractTokenFromHeaderAnyCase(authHeader) ==
    IF ~authHeader.present THEN NullPart
    ELSE IF Len(authHeader.parts) # 2 \/ authHeader.parts[1].text \notin {"Bearer", "bearer"}
        THEN NullPart
    ELSE authHeader.parts[2]

\* extractTokenFromHeader(authHeader): parts[1], or null
extractTokenFromHeader(authHeader) ==
    IF ~authHeader.present THEN NullPart
    ELSE IF Len(authHeader.parts) # 2 \/ authHeader.parts[1].text # "Bearer" THEN NullPart
    ELSE authHeader.parts[2]

\* !token: null or the empty string
Falsy(part) == part = NullPart \/ part.text = ""

----------------------------------------------------------------------------
(* middleware/auth *)

AgencyRoles == {AGENCY_ADMIN, AGENCY_EDITOR, AGENCY_VIEWER}

NoUser == EmptyObj

\* SuperAdmin.findById(id) / Client.findById(id) / Agency.findById(id):
\* whether a document is returned
SuperAdminFoundAlways(id) == TRUE

SuperAdminFound(id) == id \in superAdmins

ClientFound(id) == id \in DOMAIN clients /\ clients[id] # "absent"

AgencyFound(id) == id \in DOMAIN agencies /\ agencies[id] # "absent"

\* what a query rejects with when the database does not answer
StoreError == [name |-> "MongoNetworkError", message |-> "connection failed", statusCode |-> 0]

\* isActive letting an inactive agency count as active
isActiveUnlessSuspended(id) == agencies[id] # "suspended"

\* agency.isActive()
isActive(id) == agencies[id] = "active"

\* the clientId field of the agency documents (the client that owns the agency)
clientIdOf(id) == IF id = "a1" THEN "u2" ELSE "u3"

\* the subdomain field of the agency documents (unique)
subdomainOf(id) == IF id = "a1" THEN "alpha" ELSE "beta"

\* findBySubdomain without the status filter
findBySubdomainAnyStatus(subdomain) ==
    {id \in DOMAIN agencies : subdomainOf(id) = subdomain /\ agencies[id] # "absent"}

\* Agency.findBySubdomain(subdomain): findOne({subdomain, status: 'active'}),
\* the matching ids (none for null)
findBySubdomain(subdomain) ==
    {id \in DOMAIN agencies : subdomainOf(id) = subdomain /\ agencies[id] = "active"}

\* utils/logger: what a call hands to the logger, the level being the
\* method called (logger.security, logger.auth, logger.error, logger.debug)
logger(level, message, meta) == Spread([level |-> level, message |-> message], meta)

\* The result of a middleware: the request as it leaves it, the error
\* passed to next (NoError for a plain next()), and what it logged.
Pass(r) == [req |-> r, error |-> NoError, logged |-> <<>>]

Fail(r, err) == [req |-> r, error |-> err, logged |-> <<>>]

\* the logger is called before the result is produced
Emit(entry, result) == [result EXCEPT !.logged = Append(@, entry)]

\* result comes after a call that logged entries
Sequel(entries, result) == [result EXCEPT !.logged = entries \o @]

\* The gate stage a middleware carries out, recorded on the request with
\* its outcome.
Log(result, stage) ==
    [result EXCEPT !.req.trace = Append(@, [stage |-> stage, ok |-> result.error = NoError])]

\* authenticate asking for a user document whatever the role
authenticateLookupAll(r) ==
    LET token == extractTokenFromHeader(r.header)
        v == verifyToken(token.token, now)
        decoded == v.value
        role == Get(decoded, "role")
        userId == Get(decoded, "userId")
        found == CASE role = SUPER_ADMIN -> SuperAdminFound(userId)
                   [] role = CLIENT -> ClientFound(userId)
                   [] OTHER -> FALSE
        try == IF Falsy(token) THEN Fail(r, unauthorizedError("Access token is required"))
               ELSE IF ~v.ok THEN Fail(r, PlainError(v))
               ELSE IF role \in {SUPER_ADMIN, CLIENT} /\ ~reachable THEN Fail(r, StoreError)
               ELSE IF role = CLIENT /\ found /\ clients[userId] # "active"
                   THEN Fail(r, unauthorizedError("Account is suspended or inactive"))
               ELSE IF ~found
                   THEN Fail(r, unauthorizedError("User not found or inactive"))
               ELSE Pass([r EXCEPT !.user = decoded])
    IN  Log(IF try.error # NoError
                THEN Emit(logger("auth", "authenticate",
                                 [identifier |-> "unknown", success |-> FALSE,
                                  reason |-> try.error.message]), try)
            ELSE try,
            "token")

\* authenticate(req, res, next)
authenticate(r) ==
    LET token == extractTokenFromHeader(r.header)
        v == verifyToken(token.token, now)
        decoded == v.value
        role == Get(decoded, "role")
        userId == Get(decoded, "userId")
        found == CASE role = SUPER_ADMIN -> SuperAdminFound(userId)
                   [] role = CLIENT -> ClientFound(userId)
                   [] OTHER -> FALSE
        try == IF Falsy(token) THEN Fail(r, unauthorizedError("Access token is required"))
               ELSE IF ~v.ok THEN Fail(r, PlainError(v))
               ELSE IF role \in {SUPER_ADMIN, CLIENT} /\ ~reachable THEN Fail(r, StoreError)
               ELSE IF role = CLIENT /\ found /\ clients[userId] # "active"
                   THEN Fail(r, unauthorizedError("Account is suspended or inactive"))
               ELSE IF ~found /\ role \notin AgencyRoles
                   THEN Fail(r, unauthorizedError("User not found or inactive"))
               ELSE Pass([r EXCEPT !.user = decoded])
    IN  \* the catch block logs the failure and hands the error to next
        Log(IF try.error # NoError
                THEN Emit(logger("auth", "authenticate",
                                 [identifier |-> "unknown", success |-> FALSE,
                                  reason |-> try.error.message]), try)
            ELSE try,
            "token")

\* await authenticate(req, res, () => {}): the inner next is a no-op, so
\* the caller sees the request as authenticate leaves it and no error
AwaitAuthenticate(r) == [authenticate(r) EXCEPT !.error = NoError]

authenticateSuperAdmin(r) ==
    LET inner == AwaitAuthenticate(r)
        r1 == inner.req
    IN  Sequel(inner.logged,
               Log(IF r1.user = NoUser \/ Get(r1.user, "role") # SUPER_ADMIN
                       THEN Fail(r1, forbiddenError("Super admin access required"))
                   ELSE Pass(r1),
                   "role"))

authenticateClient(r) ==
    LET inner == AwaitAuthenticate(r)
        r1 == inner.req
    IN  Sequel(inner.logged,
               Log(IF r1.user = NoUser \/ Get(r1.user, "role") # CLIENT
                       THEN Fail(r1, forbiddenError("Client access required"))
                   ELSE Pass(r1),
                   "role"))

authenticateAgency(r) ==
    LET inner == AwaitAuthenticate(r)
        r1 == inner.req
        agencyId == Get(r1.user, "agencyId")
    IN  Sequel(inner.logged,
               Log(IF r1.user = NoUser \/ Get(r1.user, "role") \notin AgencyRoles
                       THEN Fail(r1, forbiddenError("Agency access required"))
                   ELSE IF agencyId # Undefined
                       THEN IF ~reachable THEN Fail(r1, StoreError)
                            ELSE IF ~AgencyFound(agencyId) \/ ~isActive(agencyId)
                               THEN Fail(r1, forbiddenError("Agency not found or inactive"))
                            ELSE Pass([r1 EXCEPT !.agency = agencyId])
                   ELSE Pass(r1),
                   "role"))

\* req.user.permissions.includes(permission), false when there is no array
Includes(user, permission) ==
    "permissions" \in DOMAIN user /\ permission \in user["permissions"]

\* requirePermission letting the operator role through without the permission
requirePermissionRoleBypass(permission, r) ==
    Log(IF r.user = NoUser THEN Fail(r, unauthorizedError("Authentication required"))
        ELSE IF Get(r.user, "role") # SUPER_ADMIN /\ ~Includes(r.user, permission)
            THEN Emit(logger("security", "Permission denied",
                             [userId |-> Get(r.user, "userId"),
                              requiredPermission |-> permission,
                              userPermissions |-> Get(r.user, "permissions"),
                              ip |-> r.ip, userAgent |-> r.userAgent]),
                      Fail(r, forbiddenError("Permission required")))
        ELSE Pass(r),
        "permission")

\* requirePermission(permission)(req, res, next)
requirePermission(permission, r) ==
    Log(IF r.user = NoUser THEN Fail(r, unauthorizedError("Authentication required"))
        ELSE IF ~Includes(r.user, permission)
            THEN Emit(logger("security", "Permission denied",
                             [userId |-> Get(r.user, "userId"),
                              requiredPermission |-> permission,
                              userPermissions |-> Get(r.user, "permissions"),
                              ip |-> r.ip, userAgent |-> r.userAgent]),
                      Fail(r, forbiddenError("Permission required")))
        ELSE Pass(r),
        "permission")

\* requirePermissions asking for one of the permissions instead of all
requirePermissionsAny(permissions, r) ==
    Log(IF r.user = NoUser THEN Fail(r, unauthorizedError("Authentication required"))
        ELSE IF ~\E permission \in permissions : Includes(r.user, permission)
            THEN Emit(logger("security", "Multiple permissions denied",
                             [userId |-> Get(r.user, "userId"),
                              requiredPermissions |-> permissions,
                              userPermissions |-> Get(r.user, "permissions"),
                              ip |-> r.ip, userAgent |-> r.userAgent]),
                      Fail(r, forbiddenError("Permissions required")))
        ELSE Pass(r),
        "permission")

\* requirePermissions(permissions)(req, res, next): permissions.every(...)
requirePermissions(permissions, r) ==
    Log(IF r.user = NoUser THEN Fail(r, unauthorizedError("Authentication required"))
        ELSE IF ~\A permission \in permissions : Includes(r.user, permission)
            THEN Emit(logger("security", "Multiple permissions denied",
                             [userId |-> Get(r.user, "userId"),
                              requiredPermissions |-> permissions,
                              userPermissions |-> Get(r.user, "permissions"),
                              ip |-> r.ip, userAgent |-> r.userAgent]),
                      Fail(r, forbiddenError("Permissions required")))
        ELSE Pass(r),
        "permission")

\* requireRole letting the operator role through whatever the allowed roles
requireRoleOperatorBypass(allowedRoles, r) ==
    Log(IF r.user = NoUser THEN Fail(r, unauthorizedError("Authentication required"))
        ELSE IF Get(r.user, "role") \notin allowedRoles \cup {SUPER_ADMIN}
            THEN Emit(logger("security", "Role access denied",
                             [userId |-> Get(r.user, "userId"),
                              userRole |-> Get(r.user, "role"),
                              requiredRoles |-> allowedRoles,
                              ip |-> r.ip, userAgent |-> r.userAgent]),
                      Fail(r, forbiddenError("Role required")))
        ELSE Pass(r),
        "role")

\* requireRole(roles)(req, res, next)
requireRole(allowedRoles, r) ==
    Log(IF r.user = NoUser THEN Fail(r, unauthorizedError("Authentication required"))
        ELSE IF Get(r.user, "role") \notin allowedRoles
            THEN Emit(logger("security", "Role access denied",
                             [userId |-> Get(r.user, "userId"),
                              userRole |-> Get(r.user, "role"),
                              requiredRoles |-> allowedRoles,
                              ip |-> r.ip, userAgent |-> r.userAgent]),
                      Fail(r, forbiddenError("Role required")))
        ELSE Pass(r),
        "role")

\* optionalAuthenticate handing the verification error to next
optionalAuthenticateStrict(r) ==
    LET token == extractTokenFromHeader(r.header)
        v == verifyToken(token.token, now)
    IN  Log(IF Falsy(token) THEN Pass(r)
            ELSE IF v.ok THEN Pass([r EXCEPT !.user = v.value])
            ELSE Fail(r, PlainError(v)),
            "token")

\* optionalAuthenticate(req, res, next)
optionalAuthenticate(r) ==
    LET token == extractTokenFromHeader(r.header)
        v == verifyToken(token.token, now)
    IN  Log(IF Falsy(token) THEN Pass(r)
            ELSE IF v.ok THEN Pass([r EXCEPT !.user = v.value])
            ELSE Emit(logger("debug", "Optional authentication failed:",
                             [reason |-> v.message]),
                      Pass(r)),
            "token")

\* validateAgencySubdomain(req, res, next)
validateAgencySubdomain(r) ==
    LET subdomain == Get(r.params, "subdomain")
        agency == findBySubdomain(subdomain)
    IN  Log(IF subdomain = Undefined \/ subdomain = ""
                THEN Fail(r, forbiddenError("Agency subdomain is required"))
            ELSE IF ~reachable THEN Fail(r, StoreError)
            ELSE IF agency = {}
                THEN Fail(r, forbiddenError("Agency not found or inactive"))
            ELSE Pass([r EXCEPT !.agency = CHOOSE id \in agency : TRUE]),
            "tenant")

\* req.route.path.includes('agencies')
PathIncludesAgencies(path) == path = "/agencies/:id"

\* requireResourceOwnership(resourceParam = 'id')(req, res, next)
requireResourceOwnership(resourceParam, r) ==
    LET role == Get(r.user, "role")
        resourceId == Get(r.params, resourceParam)
        agencyId == Get(r.user, "agencyId")
        resourceAgencyId == IF Get(r.params, "agencyId") \notin {Undefined, ""}
                                THEN Get(r.params, "agencyId") ELSE agencyId
    IN  Log(IF r.user = NoUser THEN Fail(r, unauthorizedError("Authentication required"))
            ELSE IF role = SUPER_ADMIN THEN Pass(r)
            ELSE IF role = CLIENT /\ PathIncludesAgencies(r.path) /\ ~reachable
                THEN Fail(r, StoreError)
            ELSE IF role = CLIENT /\ PathIncludesAgencies(r.path)
                    /\ (~AgencyFound(resourceId) \/ clientIdOf(resourceId) # Get(r.user, "userId"))
                THEN Fail(r, forbiddenError("Access denied to this resource"))
            ELSE IF agencyId \notin {Undefined, ""} /\ resourceAgencyId # agencyId
                THEN Fail(r, forbiddenError("Access denied to this agency resource"))
            ELSE Pass(r),
            "permission")

----------------------------------------------------------------------------
(* Routes: the middleware chains installed in front of a handler *)

Mw(name) == [mw |-> name, perm |-> "", perms |-> {}, roles |-> {}]

RequirePermission(permission) == [Mw("requirePermission") EXCEPT !.perm = permission]

RequirePermissions(permissions) == [Mw("requirePermissions") EXCEPT !.perms = permissions]

RequireRole(roles) == [Mw("requireRole") EXCEPT !.roles = roles]

Guards == {"authenticate", "authenticateSuperAdmin", "authenticateClient",
           "authenticateAgency"}

Routes ==
    {<<Mw(g)>> : g \in Guards}
    \cup {<<Mw(g), RequirePermission(MANAGE_STUDENTS)>> : g \in Guards}
    \cup {<<Mw("authenticate"), RequireRole(rs)>> :
            rs \in {{SUPER_ADMIN}, {AGENCY_ADMIN, AGENCY_EDITOR}}}
    \cup {<<RequirePermission(MANAGE_STUDENTS)>>}
    \cup {<<Mw("authenticate"), RequirePermissions(ps)>> :
            ps \in {{}, {MANAGE_STUDENTS}, {MANAGE_STUDENTS, MANAGE_CONTENT}}}
    \cup {<<RequirePermissions({})>>, <<Mw("optionalAuthenticate")>>}

ValidateAgencySubdomain == Mw("validateAgencySubdomain")

RequireResourceOwnership == Mw("requireResourceOwnership")

\* the subdomains a request can name: those of the two agencies and one
\* that no agency has
SubdomainParams == {"alpha", "beta", "ghost"}

\* Routes under /api/:subdomain; req.params has the subdomain, or not when
\* the router is mounted without the parameters of its parent.
SubdomainRoutes ==
    {[path |-> "/api/:subdomain", params |-> ps, chain |-> c] :
        ps \in {EmptyObj} \cup {[subdomain |-> sd] : sd \in SubdomainParams},
        c \in {<<ValidateAgencySubdomain>>,
               <<ValidateAgencySubdomain, Mw("authenticateAgency")>>,
               <<Mw("authenticateAgency"), ValidateAgencySubdomain>>}}

\* the records that belong to an agency, and the agency each belongs to
StudentIds == {"s1", "s2"}

agencyIdOf(student) == IF student = "s1" THEN "a1" ELSE "a2"

\* Routes on one resource: an agency, a student, a student under an agency
ResourceRoutes ==
    LET targets ==
            {[path |-> "/agencies/:id", params |-> [id |-> a]] : a \in {"a1", "a2"}}
            \cup {[path |-> "/students/:id", params |-> [id |-> st]] : st \in StudentIds}
            \cup {[path |-> "/:agencyId/students/:id",
                   params |-> [agencyId |-> agencyIdOf(st), id |-> st]] : st \in StudentIds}
    IN  {[path |-> t.path, params |-> t.params, chain |-> <<Mw(g), RequireResourceOwnership>>] :
            t \in targets, g \in {"authenticate", "authenticateAgency"}}

\* A route under /api/:subdomain with every stage of the gate
GrantRoutes ==
    {[path |-> "/api/:subdomain", params |-> [subdomain |-> sd],
      chain |-> <<ValidateAgencySubdomain, Mw("authenticateAgency"),
                  RequireRole({AGENCY_ADMIN, AGENCY_EDITOR}),
                  RequirePermission(MANAGE_STUDENTS)>>] : sd \in {"alpha", "beta"}}

TenantRoutes == SubdomainRoutes \cup ResourceRoutes \cup GrantRoutes

----------------------------------------------------------------------------
(* Requests *)

StoreSuperAdminIds == {"u1"}

StoreClientIds == {"u2"}

AgencyIds == {"a1", "a2"}

Statuses == {"active", "inactive", "suspended"}

\* the time at which the requests are served
GateEpoch == JWT_REFRESH_EXPIRES_IN

GatePermissionSets == {{}, {MANAGE_STUDENTS}}

\* where the requests come from
GateIp == "ip1"

GatePrincipals ==
    LET base == {[userId |-> u, email |-> EmailOf(u), role |-> r, permissions |-> ps] :
                    u \in UserIds, r \in USER_ROLES, ps \in GatePermissionSets}
    IN  base \cup {Spread(b, [agencyId |-> a]) : b \in base, a \in AgencyIds}

\* Tokens a caller can hold at GateEpoch: issued by the server some time
\* ago, or the same claims signed with another key.
AccessTokens(age) == {generateAccessToken(p, GateEpoch - age) : p \in GatePrincipals}

RefreshTokens(age) == {generateTokens(p, GateEpoch - age).refreshToken : p \in GatePrincipals}

ResetTokens == {generatePasswordResetToken(u, EmailOf(u), GateEpoch) : u \in UserIds}

ForgedTokens == {[tok EXCEPT !.key = "other-secret"] : tok \in AccessTokens(0)}

GateTokens ==
    AccessTokens(0) \cup AccessTokens(JWT_EXPIRES_IN)
    \cup RefreshTokens(0) \cup RefreshTokens(JWT_REFRESH_EXPIRES_IN)
    \cup ResetTokens \cup ForgedTokens

\* a token that a well-formed header would get through every check
MasterToken ==
    generateAccessToken([userId |-> "u1", email |-> EmailOf("u1"), role |-> SUPER_ADMIN,
                         permissions |-> {MANAGE_STUDENTS}], GateEpoch)

Headers ==
    {NoHeader}
    \cup {Header(<<Word("Bearer"), TokenPart(tok)>>) : tok \in GateTokens}
    \cup {Header(<<Word("Bearer"), Word("garbage")>>),
          Header(<<Word("Bearer"), Word("")>>),
          Header(<<Word("Bearer")>>),
          Header(<<TokenPart(MasterToken)>>),
          Header(<<Word("bearer"), TokenPart(MasterToken)>>),
          Header(<<Word("Basic"), TokenPart(MasterToken)>>),
          Header(<<Word("Bearer"), TokenPart(MasterToken), Word("x")>>)}

\* the credentials of the requests to the tenant-scoped routes
TenantHeaders ==
    {NoHeader}
    \cup {Header(<<Word("Bearer"), TokenPart(tok)>>) : tok \in AccessTokens(0) \cup RefreshTokens(0)}

----------------------------------------------------------------------------
(* The gate as a state machine *)

GateInit ==
    /\ now = GateEpoch
    /\ ticks = 0
    /\ TokIdle
    /\ superAdmins = StoreSuperAdminIds
    /\ clients = [u \in StoreClientIds |-> "active"]
    /\ agencies = [a \in AgencyIds |-> "active"]
    /\ reachable = TRUE
    /\ req = Idle
    /\ RateIdle
    /\ LimitIdle
    /\ log = <<>>
    /\ AdminIdle
    /\ ClientIdle

\* administrative operations on the stores (outside the gate)
SetSuperAdmin ==
    /\ \E ids \in SUBSET StoreSuperAdminIds : superAdmins' = ids
    /\ superAdmins' # superAdmins
    /\ UNCHANGED <<tokVars, rateVars, limitVars, adminVars, clientVars, log, clients, agencies, reachable, req>>

SetClientStatus ==
    /\ \E u \in StoreClientIds, st \in Statuses \cup {"absent"} :
            clients' = [clients EXCEPT ![u] = st]
    /\ clients' # clients
    /\ UNCHANGED <<tokVars, rateVars, limitVars, adminVars, clientVars, log, superAdmins, agencies, reachable, req>>

SetAgencyStatus ==
    /\ \E a \in AgencyIds, st \in Statuses \cup {"absent"} :
            agencies' = [agencies EXCEPT ![a] = st]
    /\ agencies' # agencies
    /\ UNCHANGED <<tokVars, rateVars, limitVars, adminVars, clientVars, log, superAdmins, clients, reachable, req>>

\* app.use(rateLimiter) comes before the routes: a request that a route's
\* middleware sees has been admitted by it
Admitted == <<[stage |-> "rate", ok |-> TRUE]>>

StartRequest ==
    /\ req.phase = "idle"
    /\ \E h \in Headers, c \in Routes :
            req' = [Idle EXCEPT !.phase = "running", !.header = h, !.chain = c, !.pc = 1,
                                !.ip = GateIp, !.method = "GET", !.userAgent = "agent",
                                !.trace = Admitted]
    /\ log' = <<>>
    /\ UNCHANGED <<tokVars, rateVars, limitVars, adminVars, clientVars, storeVars>>

\* next(error) ends in errorHandler; next() runs the following middleware
\* or, after the last one, the route handler
Advance(result) ==
    LET r == result.req
        response == errorHandler(result.error)
    IN  IF result.error # NoError
            THEN [r EXCEPT !.phase = "responded",
                           !.statusCode = response.statusCode,
                           !.error = response.error]
        ELSE IF r.pc = Len(r.chain) THEN [r EXCEPT !.phase = "handler"]
        ELSE [r EXCEPT !.pc = r.pc + 1]

\* errorHandler(err, req): what it hands to logger.error
errorHandlerLogged(err, r) ==
    logger("error", "Error occurred:",
           [reason |-> err.message, url |-> r.path, method |-> r.method,
            ip |-> r.ip, userAgent |-> r.userAgent])

\* a middleware has run: what it logged, then what errorHandler logs when
\* it was handed an error
Handle(result) ==
    /\ req' = Advance(result)
    /\ log' = log \o result.logged
                \o (IF result.error # NoError
                        THEN <<errorHandlerLogged(result.error, result.req)>> ELSE <<>>)

Running(name) == req.phase = "running" /\ req.chain[req.pc].mw = name

Authenticate ==
    /\ Running("authenticate")
    /\ Handle(authenticate(req))
    /\ UNCHANGED <<tokVars, rateVars, limitVars, adminVars, clientVars, storeVars>>

AuthenticateSuperAdmin ==
    /\ Running("authenticateSuperAdmin")
    /\ Handle(authenticateSuperAdmin(req))
    /\ UNCHANGED <<tokVars, rateVars, limitVars, adminVars, clientVars, storeVars>>

AuthenticateClient ==
    /\ Running("authenticateClient")
    /\ Handle(authenticateClient(req))
    /\ UNCHANGED <<tokVars, rateVars, limitVars, adminVars, clientVars, storeVars>>

AuthenticateAgency ==
    /\ Running("authenticateAgency")
    /\ Handle(authenticateAgency(req))
    /\ UNCHANGED <<tokVars, rateVars, limitVars, adminVars, clientVars, storeVars>>

RequirePermissionStep ==
    /\ Running("requirePermission")
    /\ Handle(requirePermission(req.chain[req.pc].perm, req))
    /\ UNCHANGED <<tokVars, rateVars, limitVars, adminVars, clientVars, storeVars>>

RequireRoleStep ==
    /\ Running("requireRole")
    /\ Handle(requireRole(req.chain[req.pc].roles, req))
    /\ UNCHANGED <<tokVars, rateVars, limitVars, adminVars, clientVars, storeVars>>

RequirePermissionsStep ==
    /\ Running("requirePermissions")
    /\ Handle(requirePermissions(req.chain[req.pc].perms, req))
    /\ UNCHANGED <<tokVars, rateVars, limitVars, adminVars, clientVars, storeVars>>

OptionalAuthenticate ==
    /\ Running("optionalAuthenticate")
    /\ Handle(optionalAuthenticate(req))
    /\ UNCHANGED <<tokVars, rateVars, limitVars, adminVars, clientVars, storeVars>>

\* the response has been sent, or the route handler has answered
EndRequest ==
    /\ req.phase \in {"handler", "responded"}
    /\ req' = Idle
    /\ log' = <<>>
    /\ UNCHANGED <<tokVars, rateVars, limitVars, adminVars, clientVars, storeVars>>

GateNext ==
    \/ SetSuperAdmin
    \/ SetClientStatus
    \/ SetAgencyStatus
    \/ StartRequest
    \/ Authenticate
    \/ AuthenticateSuperAdmin
    \/ AuthenticateClient
    \/ AuthenticateAgency
    \/ RequirePermissionStep
    \/ RequireRoleStep
    \/ RequirePermissionsStep
    \/ OptionalAuthenticate
    \/ EndRequest

SpecGate == GateInit /\ [][GateNext]_vars

----------------------------------------------------------------------------
(* The tenant-scoped routes as a state machine *)

StartTenantRequest ==
    /\ req.phase = "idle"
    /\ \E h \in TenantHeaders, rt \in TenantRoutes :
            req' = [Idle EXCEPT !.phase = "running", !.header = h, !.path = rt.path,
                                !.params = rt.params, !.chain = rt.chain, !.pc = 1,
                                !.ip = GateIp, !.method = "GET", !.userAgent = "agent",
                                !.trace = Admitted]
    /\ log' = <<>>
    /\ UNCHANGED <<tokVars, rateVars, limitVars, adminVars, clientVars, storeVars>>

ValidateAgencySubdomainStep ==
    /\ Running("validateAgencySubdomain")
    /\ Handle(validateAgencySubdomain(req))
    /\ UNCHANGED <<tokVars, rateVars, limitVars, adminVars, clientVars, storeVars>>

RequireResourceOwnershipStep ==
    /\ Running("requireResourceOwnership")
    /\ Handle(requireResourceOwnership("id", req))
    /\ UNCHANGED <<tokVars, rateVars, limitVars, adminVars, clientVars, storeVars>>

TenantNext ==
    \/ SetClientStatus
    \/ SetAgencyStatus
    \/ StartTenantRequest
    \/ Authenticate
    \/ AuthenticateAgency
    \/ ValidateAgencySubdomainStep
    \/ RequireResourceOwnershipStep
    \/ RequireRoleStep
    \/ RequirePermissionStep
    \/ EndRequest

SpecTenant == GateInit /\ [][TenantNext]_vars

----------------------------------------------------------------------------
(* The gate while the database comes and goes *)

\* the connection to the database is lost, or is back
SetReachable ==
    /\ reachable' = ~reachable
    /\ UNCHANGED <<tokVars, rateVars, limitVars, adminVars, clientVars, log, superAdmins, clients, agencies, req>>

\* the routes that read the stores: one guard, or tenant resolution
OutageRoutes ==
    {[path |-> "", params |-> EmptyObj, chain |-> <<Mw(g)>>] : g \in Guards}
    \cup {rt \in SubdomainRoutes : "subdomain" \in DOMAIN rt.params}

StartOutageRequest ==
    /\ req.phase = "idle"
    /\ \E h \in TenantHeaders, rt \in OutageRoutes :
            req' = [Idle EXCEPT !.phase = "running", !.header = h, !.path = rt.path,
                                !.params = rt.params, !.chain = rt.chain, !.pc = 1,
                                !.ip = GateIp, !.method = "GET", !.userAgent = "agent",
                                !.trace = Admitted]
    /\ log' = <<>>
    /\ UNCHANGED <<tokVars, rateVars, limitVars, adminVars, clientVars, storeVars>>

OutageNext ==
    \/ SetReachable
    \/ StartOutageRequest
    \/ Authenticate
    \/ AuthenticateSuperAdmin
    \/ AuthenticateClient
    \/ AuthenticateAgency
    \/ ValidateAgencySubdomainStep
    \/ EndRequest

SpecOutage == GateInit /\ [][OutageNext]_vars

----------------------------------------------------------------------------
(* Gate claims, checked under SpecGate *)

Terminal == req.phase \in {"handler", "responded"}

\* the middleware the request is at (the one that answered, for a request
\* that has been answered)
AtMw(name) == req.phase # "idle" /\ req.chain[req.pc].mw = name

Guarded == req.phase # "idle" /\ req.chain[1].mw \in Guards

\* the request carries a Bearer token
HasBearer == ~Falsy(extractTokenFromHeader(req.header))

BearerToken == extractTokenFromHeader(req.header).token

\* C1: a validly signed, unexpired refresh token presented as the Bearer
\* credential never attaches a principal to the request and never reaches
\* the handler.
C1_RefreshNeverAuthorizes ==
    (Guarded /\ HasBearer /\ verifyToken(BearerToken, now).ok
        /\ Get(BearerToken.payload, "type") = "refresh") =>
        (req.user = NoUser /\ req.phase # "handler")

\* C2: on a route guarded by authenticate, authenticateSuperAdmin,
\* authenticateClient or authenticateAgency, a request without an
\* Authorization header ends Unauthenticated (401), never Forbidden, and
\* never reaches the handler.
C2_AbsentHeaderUnauthenticated ==
    (Guarded /\ Terminal /\ req.header = NoHeader) =>
        (req.phase = "responded" /\ req.statusCode = 401)

\* C3: on a route that requires authentication, a Bearer token that is
\* invalid (bad signature, malformed) or expired is answered with status 401
\* and an error message, never 403 or 500.
C3_BadTokenUnauthenticated ==
    (Guarded /\ Terminal /\ HasBearer /\ ~verifyToken(BearerToken, now).ok) =>
        (req.phase = "responded" /\ req.statusCode = 401 /\ req.error # "")

\* the request has been through requirePermission with a principal attached
PermissionChecked ==
    /\ Terminal
    /\ req.chain[req.pc].mw = "requirePermission"
    /\ req.user # NoUser

\* C10: requirePermission(perm) lets an authenticated request through if and
\* only if perm is in the principal's permission set, whatever the role, and
\* answers Forbidden (403) otherwise.
C10_PermissionIffMember ==
    PermissionChecked =>
        IF Includes(req.user, req.chain[req.pc].perm)
            THEN req.phase = "handler"
            ELSE req.phase = "responded" /\ req.statusCode = 403

C10_Witness ==
    /\ PermissionChecked
    /\ Get(req.user, "role") = SUPER_ADMIN
    /\ Get(req.user, "type") = "access"
    /\ ~Includes(req.user, MANAGE_STUDENTS)
    /\ req.statusCode = 403

\* the place of a stage in the order of the gate
StageRank(stage) ==
    CASE stage = "rate" -> 1
      [] stage = "token" -> 2
      [] stage = "tenant" -> 3
      [] stage = "role" -> 4
      [] stage = "permission" -> 5

\* C16: the stages of a request run once each in the order rate check, token
\* verification, tenant resolution, role check, permission or ownership
\* check; no stage runs after a stage that failed; the handler is reached
\* only if every stage that ran succeeded; a request that has ended has
\* either reached the handler or been answered with an error status.
C16_StagesInOrderFirstFailureTerminal ==
    LET t == req.trace
    IN  /\ \A i \in 1..(Len(t) - 1) :
                /\ t[i].ok
                /\ StageRank(t[i].stage) < StageRank(t[i + 1].stage)
        /\ req.phase = "handler" => \A i \in 1..Len(t) : t[i].ok
        /\ Terminal => (req.phase = "handler" <=> req.statusCode = 0)

\* the log holds a security entry with the id of the request's principal,
\* the permission or the roles that were required, and the source IP
SecurityEntryLogged ==
    \E i \in 1..Len(log) :
        LET e == log[i]
        IN  /\ e.level = "security"
            /\ {"userId", "ip"} \subseteq DOMAIN e
            /\ e.userId = Get(req.user, "userId")
            /\ e.ip = req.ip
            /\ {"requiredPermission", "requiredPermissions", "requiredRoles"}
                    \cap DOMAIN e # {}

\* C22: when a request with a principal of an access token is answered
\* Forbidden (403) by the gate, a security log entry with the principal id,
\* the required permission or role and the source IP was written before.
C22_ForbiddenIsAuditLogged ==
    (Terminal /\ req.statusCode = 403 /\ req.user # NoUser
        /\ Get(req.user, "type") = "access") => SecurityEntryLogged

\* the request has been through optionalAuthenticate
OptionalChecked == Terminal /\ AtMw("optionalAuthenticate")

\* C25: optionalAuthenticate always proceeds to the handler without an
\* error; the request carries a principal if and only if a token was
\* supplied and passed verifyToken, and then the principal is the claims of
\* that token.
C25_OptionalNeverTerminates ==
    OptionalChecked =>
        /\ req.phase = "handler"
        /\ req.statusCode = 0
        /\ req.user # NoUser <=> (HasBearer /\ verifyToken(BearerToken, now).ok)
        /\ req.user # NoUser => req.user = BearerToken.payload

C25_Witness ==
    /\ OptionalChecked
    /\ HasBearer
    /\ verifyToken(BearerToken, now).message = "Token expired"
    /\ req.phase = "handler"
    /\ req.user = NoUser

\* the header is exactly two space-separated parts, the first one Bearer
WellFormedBearer(h) == h.present /\ Len(h.parts) = 2 /\ h.parts[1].text = "Bearer"

\* the answer of authenticate to a request without a token
NoTokenAnswer ==
    /\ req.phase = "responded"
    /\ req.statusCode = 401
    /\ req.error = "Access token is required"

\* the request has been through a route guarded by authenticate alone
AuthenticateOnly == Terminal /\ req.chain = <<Mw("authenticate")>>

\* C26: authenticate answers as for a missing token exactly when the header
\* is not made of two space-separated parts with Bearer first, or when its
\* second part is empty; a request that gets through carries the claims of
\* the token that is the second part of its header.
C26_BearerHeaderOnly ==
    AuthenticateOnly =>
        /\ NoTokenAnswer <=>
                ~(WellFormedBearer(req.header) /\ req.header.parts[2].text # "")
        /\ req.phase = "handler" =>
                (WellFormedBearer(req.header)
                    /\ req.user = req.header.parts[2].token.payload)

C26_Witness ==
    /\ AuthenticateOnly
    /\ req.header = Header(<<Word("bearer"), TokenPart(MasterToken)>>)
    /\ SuperAdminFound("u1")
    /\ NoTokenAnswer

\* the request has been through requireRole with a principal attached
RoleChecked ==
    /\ Terminal
    /\ AtMw("requireRole")
    /\ req.user # NoUser

\* the roles a role-specific wrapper is for
GrantedRoles(guard) ==
    CASE guard = "authenticateSuperAdmin" -> {SUPER_ADMIN}
      [] guard = "authenticateClient" -> {CLIENT}
      [] guard = "authenticateAgency" -> AgencyRoles

\* the first middleware of the route is guard, and it called next()
PassedFirst(guard) ==
    /\ req.phase # "idle"
    /\ req.chain[1].mw = guard
    /\ (req.pc > 1 \/ req.phase = "handler")

\* C27: requireRole(allowed) lets a request with a principal through if and
\* only if the principal's role is in allowed, and answers 403 otherwise;
\* a request that got past authenticateSuperAdmin, authenticateClient or
\* authenticateAgency has the role super_admin, client, or one of admin,
\* editor, viewer respectively.
C27_RoleIffAllowed ==
    /\ RoleChecked =>
            IF Get(req.user, "role") \in req.chain[req.pc].roles
                THEN req.phase = "handler"
                ELSE req.phase = "responded" /\ req.statusCode = 403
    /\ \A guard \in Guards \ {"authenticate"} :
            PassedFirst(guard) => Get(req.user, "role") \in GrantedRoles(guard)

C27_Witness ==
    /\ RoleChecked
    /\ Get(req.user, "role") = SUPER_ADMIN
    /\ Get(req.user, "type") = "access"
    /\ req.chain[req.pc].roles = {AGENCY_ADMIN, AGENCY_EDITOR}
    /\ req.statusCode = 403

\* the request has been through requirePermissions
PermissionsChecked == Terminal /\ AtMw("requirePermissions")

\* the permission set of a principal
PermissionsOf(user) == IF "permissions" \in DOMAIN user THEN user["permissions"] ELSE {}

\* C30: requirePermissions(perms) lets a request with a principal through if
\* and only if perms is contained in the principal's permission set (an
\* empty perms always passes) and answers 403 otherwise; a request without
\* a principal is answered 401.
C30_AllPermissionsIffContained ==
    PermissionsChecked =>
        IF req.user = NoUser THEN req.phase = "responded" /\ req.statusCode = 401
        ELSE IF req.chain[req.pc].perms \subseteq PermissionsOf(req.user)
            THEN req.phase = "handler"
        ELSE req.phase = "responded" /\ req.statusCode = 403

C30_Witness ==
    /\ PermissionsChecked
    /\ req.user # NoUser
    /\ req.chain[req.pc].perms = {MANAGE_STUDENTS, MANAGE_CONTENT}
    /\ PermissionsOf(req.user) = {MANAGE_STUDENTS}
    /\ req.statusCode = 403

\* a query of the request was rejected by the database
StoreFailed ==
    \E i \in 1..Len(log) :
        "reason" \in DOMAIN log[i] /\ log[i].reason = StoreError.message

\* C23: a request during which a read of a store failed is answered
\* ServiceUnavailable (503): it neither reaches the handler nor is answered
\* Unauthenticated (401) or Forbidden (403).
C23_OutageIsServiceUnavailable ==
    (Terminal /\ StoreFailed) => (req.phase = "responded" /\ req.statusCode = 503)

----------------------------------------------------------------------------
(* Tenant claims, checked under SpecTenant *)

\* the agency the targeted resource belongs to
TargetTenant ==
    IF req.path = "/agencies/:id" THEN req.params["id"] ELSE agencyIdOf(req.params["id"])

\* the request has been through requireResourceOwnership with the
\* principal of an access token
OwnershipChecked ==
    /\ Terminal
    /\ AtMw("requireResourceOwnership")
    /\ req.user # NoUser
    /\ Get(req.user, "type") = "access"

\* C11: requireResourceOwnership answers Forbidden (403) to every principal
\* with an agency role (admin, editor, viewer) whose own agencyId is not the
\* agency of the targeted resource, also when the token has no agencyId or
\* the route has no agencyId parameter.
C11_AgencyRoleOwnTenantOnly ==
    (OwnershipChecked /\ Get(req.user, "role") \in AgencyRoles
        /\ Get(req.user, "agencyId") # TargetTenant) =>
        (req.phase = "responded" /\ req.statusCode = 403)

\* C12: requireResourceOwnership lets a client through only if the agency
\* of the targeted resource has that client as clientId, on every route,
\* and always lets a super_admin through.
C12_ClientOwnsOrOperator ==
    /\ (OwnershipChecked /\ Get(req.user, "role") = CLIENT /\ req.phase = "handler") =>
            clientIdOf(TargetTenant) = Get(req.user, "userId")
    /\ (OwnershipChecked /\ Get(req.user, "role") = SUPER_ADMIN) => req.phase = "handler"

\* a middleware step that calls next() without an error
PassesMw(name) ==
    /\ Running(name)
    /\ req' # req
    /\ req'.phase \in {"running", "handler"}

\* C13: whatever status changes came before, authenticateAgency does not
\* pass a request whose principal's agency is not active, and
\* validateAgencySubdomain does not pass a request whose subdomain is not
\* that of an active agency.
C13_InactiveTenantNeverPasses ==
    [][/\ (PassesMw("authenticateAgency") /\ Get(req'.user, "agencyId") # Undefined) =>
            (AgencyFound(Get(req'.user, "agencyId"))
                /\ agencies[Get(req'.user, "agencyId")] = "active")
       /\ PassesMw("validateAgencySubdomain") =>
            \E a \in AgencyIds : /\ subdomainOf(a) = Get(req.params, "subdomain")
                                  /\ agencies[a] = "active"
                                  /\ req'.agency = a]_vars

C13_Witness ==
    /\ Terminal
    /\ AtMw("authenticateAgency")
    /\ Get(req.user, "agencyId") \in AgencyIds
    /\ agencies[Get(req.user, "agencyId")] \in {"inactive", "suspended"}
    /\ req.statusCode = 403
    /\ req.error = "Agency not found or inactive"

\* what the caller observes of validateAgencySubdomain on request r
ResolveOutcome(r) ==
    LET after == Advance(validateAgencySubdomain(r))
    IN  [phase |-> after.phase, statusCode |-> after.statusCode, error |-> after.error]

\* the subdomain of the request is that of an agency that is inactive or
\* suspended
NamesInactiveTenant ==
    \E a \in AgencyIds : /\ subdomainOf(a) = Get(req.params, "subdomain")
                          /\ agencies[a] \in {"inactive", "suspended"}

\* C14: the answer of validateAgencySubdomain (status and message) for the
\* subdomain of an inactive or suspended agency is the answer it gives, in
\* the same store, for a subdomain that no agency has.
C14_ResolutionDoesNotLeak ==
    [][(Running("validateAgencySubdomain") /\ req' # req /\ NamesInactiveTenant) =>
            [phase |-> req'.phase, statusCode |-> req'.statusCode, error |-> req'.error]
                = ResolveOutcome([req EXCEPT !.params = [subdomain |-> "ghost"]])]_vars

C14_Witness ==
    /\ Terminal
    /\ AtMw("validateAgencySubdomain")
    /\ NamesInactiveTenant
    /\ req.phase = "responded"
    /\ req.error = "Agency not found or inactive"

\* C15: when validateAgencySubdomain does not resolve the agency, the
\* request is answered with status 404 and the handler is not reached.
C15_UnresolvedTenant404 ==
    (Terminal /\ AtMw("validateAgencySubdomain") /\ req.trace[Len(req.trace)].ok = FALSE) =>
        (req.phase = "responded" /\ req.statusCode = 404)

\* the claims of the request's Bearer token
Claims(r) == r.header.parts[2].token.payload

\* the principal the claims of a token were made from
PrincipalOf(claims) ==
    [f \in DOMAIN claims \ {"type", "iat", "exp", "iss", "aud"} |-> claims[f]]

\* r is on its way through a route under the subdomain of an active
\* agency, the chain of the route has authenticateAgency, and r carries an
\* access token that generateTokens issued to a principal of that agency
\* whose role and permissions are those the route asks for
Legitimate(r) ==
    /\ r.phase = "running"
    /\ r.path = "/api/:subdomain"
    /\ \E i \in 1..Len(r.chain) : r.chain[i].mw = "authenticateAgency"
    /\ WellFormedBearer(r.header)
    /\ Get(Claims(r), "role") \in AgencyRoles
    /\ Get(Claims(r), "agencyId") \in AgencyIds
    /\ r.header.parts[2].token = generateTokens(PrincipalOf(Claims(r)), GateEpoch).accessToken
    /\ agencies[Claims(r)["agencyId"]] = "active"
    /\ Get(r.params, "subdomain") = subdomainOf(Claims(r)["agencyId"])
    /\ \A i \in 1..Len(r.chain) :
            /\ r.chain[i].mw = "requireRole" => Get(Claims(r), "role") \in r.chain[i].roles
            /\ r.chain[i].mw = "requirePermission" =>
                    r.chain[i].perm \in Claims(r)["permissions"]

\* C28: no middleware denies a legitimate request: each one calls next(),
\* and when the last one has, the request is at the handler with the claims
\* of its token as principal and its agency attached.
C28_LegitimateRequestGranted ==
    [][(Legitimate(req) /\ req' # req) =>
            /\ req'.phase \in {"running", "handler"}
            /\ req'.phase = "handler" =>
                    (req'.user = Claims(req) /\ req'.agency = Claims(req)["agencyId"])]_vars

C28_Witness ==
    /\ req.phase = "handler"
    /\ Len(req.chain) = 4
    /\ Get(req.user, "type") = "access"
    /\ Get(req.user, "role") = AGENCY_EDITOR
    /\ req.agency = Get(req.user, "agencyId")
    /\ Get(req.params, "subdomain") = subdomainOf(req.agency)

----------------------------------------------------------------------------
(* middleware/rateLimiter: express-rate-limit over its memory store *)

\* RATE_LIMIT_MAX of the environment (100 when it is not set)
RATE_LIMIT_MAX == 6

\* max of authRateLimiter
AUTH_MAX == 5

\* maxRequests of createAgencyRateLimiter (100 when it is not given)
AGENCY_MAX == 2

Limiters == {"rateLimiter", "authRateLimiter", "agencyRateLimiter"}

\* the max option of a limiter
Max(limiter) ==
    CASE limiter = "rateLimiter" -> RATE_LIMIT_MAX
      [] limiter = "authRateLimiter" -> AUTH_MAX
      [] limiter = "agencyRateLimiter" -> AGENCY_MAX

\* every limiter taking successful requests back out of its count
skipSuccessfulRequestsAlways(limiter) == TRUE

\* the skipSuccessfulRequests option of a limiter
skipSuccessfulRequests(limiter) == limiter = "authRateLimiter"

Ips == {"ip1", "ip2"}

RateSubdomains == {"alpha", "beta"}

\* The requests that arrive: logins, and requests under /api/:subdomain
LoginRequests == {[route |-> "login", ip |-> ip, subdomain |-> ""] : ip \in Ips}

AgencyRequests ==
    {[route |-> "agency", ip |-> ip, subdomain |-> sd] : ip \in Ips, sd \in RateSubdomains}

RateRequests == LoginRequests \cup AgencyRequests

\* keyGenerator of a limiter: req.ip unless the limiter gives its own
keyGenerator(limiter, rq) ==
    IF limiter = "agencyRateLimiter" /\ rq.subdomain # ""
        THEN "agency_" \o rq.subdomain \o "_" \o rq.ip
    ELSE rq.ip

Keys == {keyGenerator(l, rq) : l \in Limiters, rq \in RateRequests}

\* req.originalUrl and req.method of a request
originalUrl(rq) == IF rq.route = "login" THEN "/api/auth/login" ELSE "/api/" \o rq.subdomain

method(rq) == IF rq.route = "login" THEN "POST" ELSE "GET"

\* The handler option of a limiter: what it hands to the logger before it
\* answers 429.  A limiter without the option answers 429 with its message
\* and logs nothing.
handler(limiter, rq) ==
    CASE limiter = "rateLimiter" ->
            <<logger("security", "Rate limit exceeded",
                     [ip |-> rq.ip, userAgent |-> "agent",
                      url |-> originalUrl(rq), method |-> method(rq)])>>
      [] limiter = "authRateLimiter" ->
            <<logger("security", "Auth rate limit exceeded",
                     [ip |-> rq.ip, userAgent |-> "agent",
                      url |-> originalUrl(rq), method |-> method(rq),
                      body |-> "email"])>>
      [] limiter = "uploadRateLimiter" ->
            <<logger("security", "Upload rate limit exceeded",
                     [ip |-> rq.ip, userAgent |-> "agent", url |-> originalUrl(rq)])>>
      [] OTHER -> <<>>

\* The limiters in front of a route's handler: the global one of the app,
\* then the one of the route.
LimitersOf(route) ==
    IF route = "login" THEN <<"rateLimiter", "authRateLimiter">>
    ELSE <<"rateLimiter", "agencyRateLimiter">>

\* the statuses with which a route's handler answers
HandlerStatuses(route) == IF route = "login" THEN {200, 401} ELSE {200}

\* store.increment(key) / store.decrement(key) of the memory store
Increment(store, limiter, key) == [store EXCEPT ![limiter][key] = @ + 1]

Decrement(store, limiter, key) ==
    [store EXCEPT ![limiter][key] = IF @ > 0 THEN @ - 1 ELSE @]

\* a limiter that already rejects the request that brings the count to max
OverLimitAtMax(limiter, totalHits) == totalHits >= Max(limiter)

\* the request is over the limit: totalHits > max
OverLimit(limiter, totalHits) == totalHits > Max(limiter)

\* The limiters of chain from the i-th on, on request rq: each counts the
\* request and, when its count is above max, answers 429 instead of
\* calling next().  Gives the stores and the limiter that answered ("" if
\* the request got through).
RECURSIVE Limit(_, _, _, _)
Limit(chain, i, store, rq) ==
    IF i > Len(chain) THEN [hits |-> store, by |-> ""]
    ELSE LET limiter == chain[i]
             key == keyGenerator(limiter, rq)
             after == Increment(store, limiter, key)
         IN  IF OverLimit(limiter, after[limiter][key])
                 THEN [hits |-> after, by |-> limiter]
             ELSE Limit(chain, i + 1, after, rq)

\* the response has finished with statusCode: the limiters of chain that
\* skip successful requests take the request back out of their count
RECURSIVE Finish(_, _, _, _, _)
Finish(chain, i, store, rq, statusCode) ==
    IF i > Len(chain) THEN store
    ELSE LET limiter == chain[i]
             next == IF skipSuccessfulRequests(limiter) /\ statusCode < 400
                        THEN Decrement(store, limiter, keyGenerator(limiter, rq))
                     ELSE store
         IN  Finish(chain, i + 1, next, rq, statusCode)

\* the limiters of chain that a request answered by limiter `by` reached
Reached(chain, by) ==
    {chain[i] : i \in {j \in 1..Len(chain) :
                        by = "" \/ \E k \in j..Len(chain) : chain[k] = by}}

\* requests per window of a limiter beyond which no more are sent
MaxSeen == RATE_LIMIT_MAX + 1

RECURSIVE SumOver(_, _)
SumOver(f, S) ==
    IF S = {} THEN 0
    ELSE LET x == CHOOSE y \in S : TRUE IN f[x] + SumOver(f, S \ {x})

NoTally == [failed |-> 0, limited |-> 0]

\* a request in flight: the request, and whether the window of
\* authRateLimiter in which it arrived has elapsed
Flights == RateRequests \X BOOLEAN

InflightTotal == SumOver(inflight, Flights)

RateInit ==
    /\ now = GateEpoch
    /\ ticks = 0
    /\ TokIdle
    /\ GateIdle
    /\ hits = [l \in Limiters |-> [k \in Keys |-> 0]]
    /\ seen = [l \in Limiters |-> [k \in Keys |-> 0]]
    /\ inflight = [f \in Flights |-> 0]
    /\ tally = [ip \in Ips |-> NoTally]
    /\ last = NoDecision
    /\ LimitIdle
    /\ log = <<>>
    /\ AdminIdle
    /\ ClientIdle

\* request rq arrives and goes through the limiters in front of its route
Arrive(rq) ==
    LET chain == LimitersOf(rq.route)
        result == Limit(chain, 1, hits, rq)
    IN  /\ InflightTotal < MaxInflight
        /\ \A i \in 1..Len(chain) : SumOver(seen[chain[i]], Keys) < MaxSeen
        /\ hits' = result.hits
        /\ seen' = [l \in Limiters |-> [k \in Keys |->
                        IF l \in Reached(chain, result.by) /\ k = keyGenerator(l, rq)
                            THEN seen[l][k] + 1 ELSE seen[l][k]]]
        /\ inflight' = IF result.by = "" THEN [inflight EXCEPT ![<<rq, FALSE>>] = @ + 1]
                       ELSE inflight
        /\ tally' = IF rq.route = "login" /\ result.by = "authRateLimiter"
                        THEN [tally EXCEPT ![rq.ip].limited = @ + 1] ELSE tally
        /\ last' = [route |-> rq.route, ip |-> rq.ip, subdomain |-> rq.subdomain,
                    statusCode |-> IF result.by = "" THEN 0 ELSE 429, by |-> result.by]
        /\ log' = IF result.by = "" THEN <<>> ELSE handler(result.by, rq)
        /\ UNCHANGED <<tokVars, gateVars, limitVars, adminVars, clientVars>>

ArriveLogin == \E rq \in LoginRequests : Arrive(rq)

ArriveAgency == \E rq \in AgencyRequests : Arrive(rq)

\* the handler of a request answers and the response finishes
Answer ==
    \E rq \in RateRequests, earlier \in BOOLEAN, statusCode \in {200, 401} :
        /\ inflight[<<rq, earlier>>] > 0
        /\ statusCode \in HandlerStatuses(rq.route)
        /\ hits' = Finish(LimitersOf(rq.route), 1, hits, rq, statusCode)
        /\ inflight' = [inflight EXCEPT ![<<rq, earlier>>] = @ - 1]
        /\ tally' = IF rq.route = "login" /\ statusCode = 401 /\ ~earlier
                        THEN [tally EXCEPT ![rq.ip].failed = @ + 1] ELSE tally
        /\ last' = NoDecision
        /\ log' = <<>>
        /\ UNCHANGED <<tokVars, gateVars, limitVars, adminVars, clientVars, seen>>

\* windowMs have passed: the store of a limiter forgets its counts
WindowElapsed ==
    \E limiter \in Limiters :
        /\ \E k \in Keys : seen[limiter][k] > 0
        /\ hits' = [hits EXCEPT ![limiter] = [k \in Keys |-> 0]]
        /\ seen' = [seen EXCEPT ![limiter] = [k \in Keys |-> 0]]
        /\ tally' = IF limiter = "authRateLimiter" THEN [ip \in Ips |-> NoTally] ELSE tally
        /\ inflight' = IF limiter = "authRateLimiter"
                           THEN [f \in Flights |->
                                    IF f[2] THEN inflight[<<f[1], TRUE>>] + inflight[<<f[1], FALSE>>]
                                    ELSE 0]
                       ELSE inflight
        /\ last' = NoDecision
        /\ log' = <<>>
        /\ UNCHANGED <<tokVars, gateVars, limitVars, adminVars, clientVars>>

\* the login route
AuthRateNext ==
    \/ ArriveLogin
    \/ Answer
    \/ WindowElapsed

SpecAuthRate == RateInit /\ [][AuthRateNext]_vars

\* the routes under /api/:subdomain
AgencyRateNext ==
    \/ ArriveAgency
    \/ Answer
    \/ WindowElapsed

SpecAgencyRate == RateInit /\ [][AgencyRateNext]_vars

----------------------------------------------------------------------------
(* Rate limiter claims, checked under SpecAuthRate and SpecAgencyRate *)

\* a request has just arrived and limiter has counted it
JustReached(limiter) ==
    /\ last.route # ""
    /\ limiter \in Reached(LimitersOf(last.route), last.by)

\* its place among the requests of its key in the window of limiter
Ordinal(limiter) == seen[limiter][keyGenerator(limiter, last)]

\* the count of limiter for its key
TotalHits(limiter) == hits[limiter][keyGenerator(limiter, last)]

\* the count of a limiter never exceeds the number of requests of the
\* current window: when the window has elapsed it starts again from zero
CountWithinWindow ==
    \A l \in Limiters, k \in Keys : hits[l][k] <= seen[l][k]

\* C17 as stated: for every limiter, with max = N, the first N requests of
\* a key in a window are admitted and request N+1 is rejected with 429;
\* after the window has elapsed the count starts again.
C17_FirstNThenRejected ==
    /\ \A l \in Limiters : JustReached(l) =>
            /\ Ordinal(l) <= Max(l) => last.by # l
            /\ Ordinal(l) = Max(l) + 1 => (last.by = l /\ last.statusCode = 429)
    /\ CountWithinWindow

\* C17, amended: for every limiter the first N requests of a key in a
\* window are admitted; a limiter that counts every request rejects request
\* N+1 and the later ones with 429; a limiter that skips successful
\* requests rejects a request exactly when, with it, more than N requests
\* of the key are still counted; after the window has elapsed the count
\* starts again.
C17_FirstNThenRejectedWhileCounted ==
    /\ \A l \in Limiters : JustReached(l) =>
            /\ Ordinal(l) <= Max(l) => last.by # l
            /\ (~skipSuccessfulRequests(l) /\ Ordinal(l) > Max(l)) =>
                    (last.by = l /\ last.statusCode = 429)
            /\ skipSuccessfulRequests(l) =>
                    (TotalHits(l) > Max(l) <=> (last.by = l /\ last.statusCode = 429))
    /\ CountWithinWindow

C17_Witness ==
    /\ JustReached("rateLimiter")
    /\ Ordinal("rateLimiter") = RATE_LIMIT_MAX + 1
    /\ last.by = "rateLimiter"
    /\ last.statusCode = 429

\* C18: a login attempt that arrives from an IP after 5 login attempts from
\* that IP were answered as failed in the window is answered 429 by the
\* limiter, without the login handler being invoked.
C18_SixthAfterFiveFailures ==
    (last.route = "login" /\ tally[last.ip].failed >= AUTH_MAX) =>
        (last.statusCode = 429 /\ last.by # "")

\* C19: for every IP the count of authRateLimiter equals the number of
\* login attempts of the window that were not successful, also while
\* requests are in flight, so that a login is rejected by authRateLimiter
\* only if more than max attempts, with it, were not successful.
C19_CountsOnlyUnsuccessful ==
    /\ \A ip \in Ips :
            hits["authRateLimiter"][ip] = tally[ip].failed + tally[ip].limited
    /\ last.by = "authRateLimiter" =>
            tally[last.ip].failed + tally[last.ip].limited > AUTH_MAX

\* the requests of the window addressed to the subdomain of the request
\* that just arrived, from its IP, that request included
OwnTraffic ==
    seen["agencyRateLimiter"][keyGenerator("agencyRateLimiter", last)]
        + (IF last.by = "rateLimiter" THEN 1 ELSE 0)

\* C20: a request addressed to a subdomain is rejected with 429 only if
\* the requests addressed to that subdomain from the same IP are over the
\* limit: requests to another subdomain or from another IP do not count
\* against it.
C20_TenantTrafficIsolated ==
    (last.route = "agency" /\ last.statusCode = 429) => OwnTraffic > AGENCY_MAX

\* the log holds a security entry with the IP, the path and the method of
\* the request that just arrived
RejectionLogged ==
    \E i \in 1..Len(log) :
        LET e == log[i]
        IN  /\ e.level = "security"
            /\ {"ip", "url", "method"} \subseteq DOMAIN e
            /\ e.ip = last.ip
            /\ e.url = originalUrl(last)
            /\ e.method = method(last)

\* C21: a request that a limiter rejects is answered 429, and a security
\* log entry with its IP, its path and its method has been written.
C21_RejectionIsAuditLogged ==
    (last.route # "" /\ last.by # "") => (last.statusCode = 429 /\ RejectionLogged)

\* the limiters that count every request
CountingLimiters == {"rateLimiter", "agencyRateLimiter"}

----------------------------------------------------------------------------
(* models/Client: the resource limits, and the creation of agencies *)

LimitClients == {"u2", "u3"}

\* the resourceLimits field of the client documents
resourceLimits(client) ==
    IF client = "u2" THEN [agencies |-> 1] ELSE [agencies |-> 2]

\* client.isWithinResourceLimits(resource, currentUsage)
isWithinResourceLimits(client, resource, currentUsage) ==
    currentUsage < resourceLimits(client)[resource]

TenantIds == {"t1", "t2", "t3"}

NoTenant == [clientId |-> "", status |-> "absent"]

\* agencyCount of findWithAgencyCount: the agency documents whose clientId
\* is the client
agencyCount(client) ==
    Cardinality({t \in TenantIds : tenants[t].clientId = client})

\* the active agencies a client owns
ActiveOwned(client) ==
    Cardinality({t \in TenantIds : tenants[t].clientId = client
                                    /\ tenants[t].status = "active"})

Creators == 1..MaxCreations

NotCreating == [pc |-> "idle", client |-> "", count |-> 0]

LimitInit ==
    /\ now = GateEpoch
    /\ ticks = 0
    /\ TokIdle
    /\ GateIdle
    /\ RateIdle
    /\ log = <<>>
    /\ AdminIdle
    /\ ClientIdle
    /\ tenants = [t \in TenantIds |-> NoTenant]
    /\ creations = [p \in Creators |-> NotCreating]

\* a request to create an agency for a client reads the current count
CountAgencies ==
    \E p \in Creators, client \in LimitClients :
        /\ creations[p].pc = "idle"
        /\ creations' = [creations EXCEPT
                            ![p] = [pc |-> "counted", client |-> client,
                                    count |-> agencyCount(client)]]
        /\ UNCHANGED <<tokVars, gateVars, rateVars, adminVars, clientVars, log, tenants>>

\* ... and, admitted by isWithinResourceLimits('agencies', count), saves
\* the new agency, active; it is rejected otherwise
CreateAgency ==
    \E p \in Creators :
        LET client == creations[p].client
            free == {t \in TenantIds : tenants[t] = NoTenant}
        IN  /\ creations[p].pc = "counted"
            /\ free # {}
            /\ tenants' = IF isWithinResourceLimits(client, "agencies", creations[p].count)
                              THEN [tenants EXCEPT ![CHOOSE t \in free : TRUE] =
                                        [clientId |-> client, status |-> "active"]]
                          ELSE tenants
            /\ creations' = [creations EXCEPT ![p] = NotCreating]
            /\ UNCHANGED <<tokVars, gateVars, rateVars, adminVars, clientVars, log>>

\* the status of an agency is changed
SetTenantStatus ==
    \E t \in TenantIds, st \in Statuses :
        /\ tenants[t] # NoTenant
        /\ tenants[t].status # st
        /\ tenants' = [tenants EXCEPT ![t].status = st]
        /\ UNCHANGED <<tokVars, gateVars, rateVars, adminVars, clientVars, log, creations>>

LimitNext ==
    \/ CountAgencies
    \/ CreateAgency
    \/ SetTenantStatus

SpecLimits == LimitInit /\ [][LimitNext]_vars

\* C29: every client owns at most resourceLimits.agencies active agencies,
\* also while several creations for the same client are under way.
C29_ActiveTenantsWithinLimit ==
    \A client \in LimitClients : ActiveOwned(client) <= resourceLimits(client)["agencies"]

----------------------------------------------------------------------------
(* isTokenExpired against verifyToken *)

\* a session token carrying the signature of JWT_SECRET
ValidlySigned(tok) == tok.form = "jwt" /\ tok.key = JWT_SECRET

BothAsked == vresult # NoResult /\ eresult.called

\* C38: for a validly signed session token and any clock value, the instant
\* equal to exp included, isTokenExpired answers true exactly when
\* verifyToken fails with "Token expired".
C38_ExpiryAgrees ==
    (ValidlySigned(presented) /\ BothAsked)
        => (eresult.returned <=> (~vresult.ok /\ vresult.message = "Token expired"))

\* a token that cannot be decoded is reported as expired
UndecodableIsExpired ==
    (presented = Garbage /\ eresult.called) => eresult.returned

----------------------------------------------------------------------------
(* The principal behind a token: authenticate alone, and the role guards  *)
(* behind optionalAuthenticate                                             *)

Wrappers == {"authenticateSuperAdmin", "authenticateClient", "authenticateAgency"}

\* tokens the server has signed with a role outside USER_ROLES, or none
OddPrincipals ==
    {[userId |-> u, email |-> EmailOf(u), role |-> "guest", permissions |-> {}] : u \in UserIds}
    \cup {[userId |-> u, email |-> EmailOf(u), permissions |-> {}] : u \in UserIds}

PrincipalHeaders ==
    TenantHeaders
    \cup {Header(<<Word("Bearer"), TokenPart(generateAccessToken(p, GateEpoch))>>) :
            p \in OddPrincipals}

PrincipalRoutes ==
    {<<Mw("authenticate")>>}
    \cup {<<Mw("optionalAuthenticate"), Mw(g)>> : g \in Wrappers}

StartPrincipalRequest ==
    /\ req.phase = "idle"
    /\ \E h \in PrincipalHeaders, c \in PrincipalRoutes :
            req' = [Idle EXCEPT !.phase = "running", !.header = h, !.chain = c, !.pc = 1,
                                !.ip = GateIp, !.method = "GET", !.userAgent = "agent",
                                !.trace = Admitted]
    /\ log' = <<>>
    /\ UNCHANGED <<tokVars, rateVars, limitVars, adminVars, clientVars, storeVars>>

PrincipalNext ==
    \/ SetSuperAdmin
    \/ SetClientStatus
    \/ SetAgencyStatus
    \/ StartPrincipalRequest
    \/ OptionalAuthenticate
    \/ Authenticate
    \/ AuthenticateSuperAdmin
    \/ AuthenticateClient
    \/ AuthenticateAgency
    \/ EndRequest

SpecPrincipal == GateInit /\ [][PrincipalNext]_vars

\* the inner authenticate of a role guard handed an error to its next
InnerRejected ==
    \E i \in DOMAIN req.trace : req.trace[i] = [stage |-> "token", ok |-> FALSE]

\* C31: a role guard proceeds to the handler only if its inner
\* authenticate succeeded on this request, whatever req.user held before
\* the guard ran (for example what optionalAuthenticate had set).
C31_GuardNeedsAuthenticate ==
    (req.phase # "idle" /\ req.chain[req.pc].mw \in Wrappers /\ InnerRejected)
        => req.phase # "handler"

\* what the record of the principal in the store must be for the role
Live(role, userId) ==
    /\ role \in USER_ROLES
    /\ role = SUPER_ADMIN => userId \in superAdmins
    /\ role = CLIENT => (userId \in DOMAIN clients /\ clients[userId] = "active")

AuthenticateRan == Running("authenticate") /\ req' # req

\* C33: authenticate attaches a principal only if the verified token's role
\* is one of USER_ROLES and, for super_admin and client, the record exists
\* and, for client, is active; otherwise the request is rejected and
\* req.user is left unset.
C33_PrincipalOnlyIfLive ==
    [][AuthenticateRan =>
        LET v == verifyToken(BearerToken, now)
            live == HasBearer /\ v.ok
                    /\ Live(Get(v.value, "role"), Get(v.value, "userId"))
        IN  IF live THEN req'.user = v.value /\ req'.phase = "handler"
            ELSE req'.user = NoUser /\ req'.phase = "responded"]_vars

C33_Witness ==
    /\ AuthenticateOnly
    /\ HasBearer
    /\ verifyToken(BearerToken, now).ok
    /\ Get(BearerToken.payload, "role") \notin USER_ROLES
    /\ req.phase = "responded"
    /\ req.user = NoUser

----------------------------------------------------------------------------
(* Tenant isolation on the subdomain routes, checked under SpecTenant *)

\* the handler has been reached through validateAgencySubdomain and
\* authenticateAgency, in either order, by the principal of an access token
\* that names its agency
ThroughBothTenantChecks ==
    /\ req.phase = "handler"
    /\ Get(req.user, "type") = "access"
    /\ "agencyId" \in DOMAIN req.user
    /\ {"validateAgencySubdomain", "authenticateAgency"}
            \subseteq {req.chain[i].mw : i \in DOMAIN req.chain}

\* the agency whose subdomain the request names
AddressedTenant ==
    CHOOSE a \in AgencyIds : subdomainOf(a) = Get(req.params, "subdomain")

\* C32: when a request by an agency principal reaches the handler through
\* validateAgencySubdomain and authenticateAgency, in either order, the
\* principal's agencyId is the id of the tenant the subdomain addresses and
\* req.agency is that tenant.
C32_PrincipalBelongsToAddressedTenant ==
    ThroughBothTenantChecks =>
        /\ Get(req.user, "agencyId") = AddressedTenant
        /\ req.agency = AddressedTenant

----------------------------------------------------------------------------
(* models/SuperAdmin: the pre('deleteOne') hook of the documents *)

SuperAdminIds == {"u1", "u2", "u3"}

Deleters == 1 .. MaxDeletions

\* pc: "idle", "hook" (the hook awaits countDocuments), "next" (the hook
\* has called next()), "deleted", "failed" (the hook has called next(error))
NotDeleting == [pc |-> "idle", doc |-> "", error |-> ""]

AdminInit ==
    /\ now = GateEpoch
    /\ ticks = 0
    /\ TokIdle
    /\ superAdmins \in SUBSET SuperAdminIds \ {{}}
    /\ clients = [u \in {} |-> "absent"]
    /\ agencies = [a \in {} |-> "absent"]
    /\ reachable = TRUE
    /\ req = Idle
    /\ RateIdle
    /\ LimitIdle
    /\ log = <<>>
    /\ deletions = [p \in Deleters |-> NotDeleting]
    /\ ClientIdle

\* doc.deleteOne() on a document that has been loaded: the hook starts
DeleteOne(p) ==
    /\ deletions[p].pc = "idle"
    /\ \E id \in superAdmins :
            deletions' = [deletions EXCEPT ![p] = [pc |-> "hook", doc |-> id, error |-> ""]]
    /\ UNCHANGED <<tokVars, gateVars, rateVars, limitVars, clientVars, log>>

countDocuments == Cardinality(superAdmins)

\* the hook resumes with the count and calls next(error) or next()
PreDeleteOne(p) ==
    /\ deletions[p].pc = "hook"
    /\ deletions' = [deletions EXCEPT ![p] =
            IF countDocuments <= 1
                THEN [@ EXCEPT !.pc = "failed",
                               !.error = "Cannot delete the last super admin"]
            ELSE [@ EXCEPT !.pc = "next"]]
    /\ UNCHANGED <<tokVars, gateVars, rateVars, limitVars, clientVars, log>>

\* after next(), the document is removed from the collection
RemoveDocument(p) ==
    /\ deletions[p].pc = "next"
    /\ superAdmins' = superAdmins \ {deletions[p].doc}
    /\ deletions' = [deletions EXCEPT ![p].pc = "deleted"]
    /\ UNCHANGED <<tokVars, rateVars, limitVars, clientVars, log,
                   clients, agencies, reachable, req>>

\* the caller has the outcome of its deleteOne
DeleteOneReturns(p) ==
    /\ deletions[p].pc \in {"deleted", "failed"}
    /\ deletions' = [deletions EXCEPT ![p] = NotDeleting]
    /\ UNCHANGED <<tokVars, gateVars, rateVars, limitVars, clientVars, log>>

AdminNext ==
    \E p \in Deleters :
        \/ DeleteOne(p)
        \/ PreDeleteOne(p)
        \/ RemoveDocument(p)
        \/ DeleteOneReturns(p)

SpecAdmins == AdminInit /\ [][AdminNext]_vars

\* C34: after any sequence of document deleteOne operations on super
\* admins, two of them running concurrently when exactly two super admins
\* exist included, at least one super admin remains.
C34_OneSuperAdminRemains == Cardinality(superAdmins) >= 1

\* a deletion attempted when only one super admin exists fails with an
\* error and leaves the store unchanged
LastSuperAdminRefused ==
    [][\A p \in Deleters :
        (deletions[p].pc = "hook" /\ countDocuments = 1 /\ deletions'[p] # deletions[p])
            => /\ deletions'[p].pc = "failed"
               /\ superAdmins' = superAdmins]_vars

----------------------------------------------------------------------------
(* client store: the browser *)

\* the JavaScript value null
Null == "null"

\* localStorage.getItem / setItem / removeItem on a storage
getItem(storage, key) == IF key \in DOMAIN storage THEN storage[key] ELSE Null

setItem(storage, key, value) == Spread(storage, [k \in {key} |-> value])

removeItemKept(storage, key) == storage

removeItem(storage, key) == [k \in DOMAIN storage \ {key} |-> storage[k]]

\* the client slices that a run does not exercise
NoSlice == EmptyObj

----------------------------------------------------------------------------
(* client store: themeSlice *)

Themes == {"light", "dark", "system"}

SystemThemes == {"light", "dark"}

\* what localStorage may hold under 'theme' when the page loads
StoredThemes == Themes \cup {"blue", ""}

getInitialTheme(storage) ==
    LET stored == getItem(storage, "theme")
    IN  IF stored \notin {Null, ""} /\ stored \in {"light", "dark", "system"}
            THEN stored
        ELSE "system"

resolveThemeLight(t, systemTheme) == IF t = "system" THEN "light" ELSE t

resolveTheme(t, systemTheme) == IF t = "system" THEN systemTheme ELSE t

\* root.classList.remove('light', 'dark'); root.classList.add(resolved)
applyTheme(classes, resolved) == (classes \ {"light", "dark"}) \cup {resolved}

setTheme(state, payload) ==
    [state EXCEPT !.theme = payload,
                  !.resolvedTheme = resolveTheme(payload, state.systemTheme)]

setSystemTheme(state, payload) ==
    [state EXCEPT !.systemTheme = payload,
                  !.resolvedTheme = resolveTheme(state.theme, payload)]

toggleTheme(state) ==
    LET next == IF state.theme = "light" THEN "dark"
                ELSE IF state.theme = "dark" THEN "system"
                ELSE "light"
    IN  [state EXCEPT !.theme = next,
                      !.resolvedTheme = resolveTheme(next, state.systemTheme)]

\* the classes the root element may carry when the page loads
RootClasses == {"app", "no-js", "light"}

ThemeInit ==
    /\ now = 0
    /\ ticks = 0
    /\ TokIdle
    /\ GateIdle
    /\ RateIdle
    /\ LimitIdle
    /\ log = <<>>
    /\ AdminIdle
    /\ notifications = NoSlice
    /\ auth = NoSlice
    /\ localStorage \in {EmptyObj} \cup {[k \in {"theme"} |-> st] : st \in StoredThemes}
    /\ classList \in SUBSET RootClasses
    /\ \E initialSystemTheme \in SystemThemes :
            LET initialTheme == getInitialTheme(localStorage)
            IN  theme = [theme |-> initialTheme,
                         systemTheme |-> initialSystemTheme,
                         resolvedTheme |-> resolveTheme(initialTheme, initialSystemTheme)]

SetTheme ==
    /\ \E payload \in Themes :
            /\ theme' = setTheme(theme, payload)
            /\ localStorage' = setItem(localStorage, "theme", payload)
    /\ classList' = applyTheme(classList, theme'.resolvedTheme)
    /\ UNCHANGED <<tokVars, gateVars, rateVars, limitVars, adminVars, log,
                   notifications, auth>>

SetSystemTheme ==
    /\ \E payload \in SystemThemes : theme' = setSystemTheme(theme, payload)
    /\ classList' = IF theme'.theme = "system"
                        THEN applyTheme(classList, theme'.resolvedTheme)
                     ELSE classList
    /\ UNCHANGED <<tokVars, gateVars, rateVars, limitVars, adminVars, log,
                   notifications, auth, localStorage>>

ToggleTheme ==
    /\ theme' = toggleTheme(theme)
    /\ localStorage' = setItem(localStorage, "theme", theme'.theme)
    /\ classList' = applyTheme(classList, theme'.resolvedTheme)
    /\ UNCHANGED <<tokVars, gateVars, rateVars, limitVars, adminVars, log,
                   notifications, auth>>

InitializeTheme ==
    /\ classList' = applyTheme(classList, theme.resolvedTheme)
    /\ UNCHANGED <<tokVars, gateVars, rateVars, limitVars, adminVars, log,
                   notifications, auth, theme, localStorage>>

ThemeNext ==
    \/ SetTheme
    \/ SetSystemTheme
    \/ ToggleTheme
    \/ InitializeTheme

SpecTheme == ThemeInit /\ [][ThemeNext]_vars

Resolved ==
    theme.resolvedTheme = IF theme.theme = "system" THEN theme.systemTheme ELSE theme.theme

ToggleCycle(t) == CASE t = "light" -> "dark" [] t = "dark" -> "system" [] t = "system" -> "light"

\* C39: in every state reachable by setTheme, setSystemTheme, toggleTheme
\* and initializeTheme, resolvedTheme is systemTheme when theme is 'system'
\* and theme otherwise; toggleTheme cycles light -> dark -> system -> light,
\* so three toggles restore the theme; setSystemTheme never changes theme.
C39_ThemeResolvedAndCycle ==
    /\ [](Resolved /\ toggleTheme(toggleTheme(toggleTheme(theme))).theme = theme.theme)
    /\ [][/\ ToggleTheme => theme'.theme = ToggleCycle(theme.theme)
          /\ SetSystemTheme => theme'.theme = theme.theme]_vars

C39_Witness ==
    /\ theme.theme = "system"
    /\ theme.systemTheme = "dark"
    /\ theme.resolvedTheme = "dark"
    /\ getItem(localStorage, "theme") = "system"
    /\ "dark" \in classList

----------------------------------------------------------------------------
(* client store: authSlice (user: null is NoUser) *)

\* the payloads of loginSuccess
SessionUsers ==
    {[userId |-> "u1", email |-> EmailOf("u1"), role |-> SUPER_ADMIN, permissions |-> {}],
     [userId |-> "u2", email |-> EmailOf("u2"), role |-> CLIENT, permissions |-> {}],
     [userId |-> "u2", email |-> EmailOf("u2"), role |-> AGENCY_ADMIN,
      permissions |-> {MANAGE_STUDENTS}, agencyId |-> "a1"]}

\* the payloads of updateUser
UserUpdates == {EmptyObj, [email |-> "new@mail"], [permissions |-> {MANAGE_CONTENT}]}

\* the token pairs of the payloads of loginSuccess and refreshTokens
SessionTokens ==
    {[accessToken |-> a, refreshToken |-> r] : a \in {"at1", "at2"}, r \in {"rt1", "rt2"}}

\* the payloads of loginFailure
LoginErrors == {"Invalid credentials", "Network error"}

\* what localStorage may hold of an earlier session when the page loads
StoredSessions ==
    {Spread(a, r) : a \in {EmptyObj, [accessToken |-> "at0"]},
                    r \in {EmptyObj, [refreshToken |-> "rt0"]}}

loginStart(state) == [state EXCEPT !.isLoading = TRUE, !.error = Null]

loginSuccess(state, payload) ==
    [state EXCEPT !.user = payload.user,
                  !.accessToken = payload.accessToken,
                  !.refreshToken = payload.refreshToken,
                  !.isAuthenticated = TRUE,
                  !.isLoading = FALSE,
                  !.error = Null]

loginFailure(state, payload) ==
    [state EXCEPT !.user = NoUser,
                  !.accessToken = Null,
                  !.refreshToken = Null,
                  !.isAuthenticated = FALSE,
                  !.isLoading = FALSE,
                  !.error = payload]

logout(state) ==
    [state EXCEPT !.user = NoUser,
                  !.accessToken = Null,
                  !.refreshToken = Null,
                  !.isAuthenticated = FALSE,
                  !.isLoading = FALSE,
                  !.error = Null]

refreshTokens(state, payload) ==
    [state EXCEPT !.accessToken = payload.accessToken,
                  !.refreshToken = payload.refreshToken]

updateUser(state, payload) ==
    IF state.user # NoUser THEN [state EXCEPT !.user = Spread(state.user, payload)]
    ELSE state

clearError(state) == [state EXCEPT !.error = Null]

setLoading(state, payload) == [state EXCEPT !.isLoading = payload]

AuthInit ==
    /\ now = 0
    /\ ticks = 0
    /\ TokIdle
    /\ GateIdle
    /\ RateIdle
    /\ LimitIdle
    /\ log = <<>>
    /\ AdminIdle
    /\ notifications = NoSlice
    /\ theme = NoSlice
    /\ classList = {}
    /\ localStorage \in StoredSessions
    /\ auth = [user |-> NoUser,
               isAuthenticated |-> FALSE,
               accessToken |-> getItem(localStorage, "accessToken"),
               refreshToken |-> getItem(localStorage, "refreshToken"),
               isLoading |-> FALSE,
               error |-> Null]

AuthOnly == <<tokVars, gateVars, rateVars, limitVars, adminVars, log,
              notifications, theme, classList>>

storeTokens(storage, payload) ==
    setItem(setItem(storage, "accessToken", payload.accessToken),
            "refreshToken", payload.refreshToken)

clearTokens(storage) == removeItem(removeItem(storage, "accessToken"), "refreshToken")

LoginStart ==
    /\ auth' = loginStart(auth)
    /\ UNCHANGED <<AuthOnly, localStorage>>

LoginSuccess ==
    /\ \E u \in SessionUsers, t \in SessionTokens :
            LET payload == Spread([user |-> u], t)
            IN  /\ auth' = loginSuccess(auth, payload)
                /\ localStorage' = storeTokens(localStorage, payload)
    /\ UNCHANGED AuthOnly

LoginFailure ==
    /\ \E payload \in LoginErrors : auth' = loginFailure(auth, payload)
    /\ localStorage' = clearTokens(localStorage)
    /\ UNCHANGED AuthOnly

Logout ==
    /\ auth' = logout(auth)
    /\ localStorage' = clearTokens(localStorage)
    /\ UNCHANGED AuthOnly

RefreshSession ==
    /\ \E payload \in SessionTokens :
            /\ auth' = refreshTokens(auth, payload)
            /\ localStorage' = storeTokens(localStorage, payload)
    /\ UNCHANGED AuthOnly

UpdateUser ==
    /\ \E payload \in UserUpdates : auth' = updateUser(auth, payload)
    /\ UNCHANGED <<AuthOnly, localStorage>>

ClearError ==
    /\ auth' = clearError(auth)
    /\ UNCHANGED <<AuthOnly, localStorage>>

SetLoading ==
    /\ \E payload \in BOOLEAN : auth' = setLoading(auth, payload)
    /\ UNCHANGED <<AuthOnly, localStorage>>

AuthNext ==
    \/ LoginStart
    \/ LoginSuccess
    \/ LoginFailure
    \/ Logout
    \/ RefreshSession
    \/ UpdateUser
    \/ ClearError
    \/ SetLoading

SpecAuth == AuthInit /\ [][AuthNext]_vars

SignedOut(state, storage) ==
    /\ state.user = NoUser
    /\ state.accessToken = Null
    /\ state.refreshToken = Null
    /\ "accessToken" \notin DOMAIN storage
    /\ "refreshToken" \notin DOMAIN storage

\* C37: in every state reachable by the auth reducers, isAuthenticated =
\* true implies that user, accessToken and refreshToken are all non-null;
\* after logout or loginFailure user and both tokens are null, in the state
\* and in localStorage alike.
C37_AuthenticatedHasSession ==
    /\ [](auth.isAuthenticated =>
            (auth.user # NoUser /\ auth.accessToken # Null /\ auth.refreshToken # Null))
    /\ [][(Logout \/ LoginFailure) => SignedOut(auth', localStorage')]_vars

C37_Witness ==
    /\ auth.isAuthenticated
    /\ auth.accessToken = "at2"
    /\ getItem(localStorage, "accessToken") = "at2"
    /\ Get(auth.user, "email") = "new@mail"

----------------------------------------------------------------------------
(* client store: notificationSlice *)

DEFAULT_MAX_NOTIFICATIONS == 50

NotificationIds == {"n1", "n2"}

\* JSON.parse / JSON.stringify on the booleans kept in localStorage
JSONparse(text) == text = "true"

JSONstringify(b) == IF b THEN "true" ELSE "false"

\* localStorage.getItem(key) || fallback
getItemOr(storage, key, fallback) ==
    LET stored == getItem(storage, key)
    IN  IF stored \in {Null, ""} THEN fallback ELSE stored

MathMin(a, b) == IF a < b THEN a ELSE b

MathMax(a, b) == IF a > b THEN a ELSE b

\* array.splice(start): the elements removed, and the elements left
SpliceStart(list, start) ==
    IF start < 0 THEN MathMax(Len(list) + start, 0) ELSE MathMin(start, Len(list))

Spliced(list, start) == SubSeq(list, SpliceStart(list, start) + 1, Len(list))

AfterSplice(list, start) == SubSeq(list, 1, SpliceStart(list, start))

\* array.filter(n => !n.read).length
UnreadIn(list) == Cardinality({i \in DOMAIN list : ~list[i].read})

Filter(list, Keep(_)) == SelectSeq(list, Keep)

limitCountKept(state) ==
    IF Len(state.notifications) > state.settings.maxNotifications
        THEN [state EXCEPT
                !.notifications = AfterSplice(state.notifications,
                                              state.settings.maxNotifications)]
    ELSE state

\* "Limit total notifications"
limit(state) ==
    IF Len(state.notifications) > state.settings.maxNotifications
        THEN LET removed == Spliced(state.notifications, state.settings.maxNotifications)
             IN  [state EXCEPT
                    !.notifications = AfterSplice(state.notifications,
                                                  state.settings.maxNotifications),
                    !.unreadCount = MathMax(0, state.unreadCount - UnreadIn(removed))]
    ELSE state

addNotification(state, notification) ==
    limit([state EXCEPT
            !.notifications = <<notification>> \o @,
            !.unreadCount = IF ~notification.read THEN @ + 1 ELSE @])

\* array.find / findIndex: the first position that holds the id, 0 if none
findIndex(list, id) ==
    IF \E i \in DOMAIN list : list[i].id = id
        THEN CHOOSE i \in DOMAIN list :
                /\ list[i].id = id
                /\ \A j \in 1 .. i - 1 : list[j].id # id
    ELSE 0

markAsRead(state, id) ==
    LET i == findIndex(state.notifications, id)
    IN  IF i # 0 /\ ~state.notifications[i].read
            THEN [state EXCEPT !.notifications[i].read = TRUE,
                               !.unreadCount = MathMax(0, @ - 1)]
        ELSE state

markAllAsRead(state) ==
    [state EXCEPT
        !.notifications = [i \in DOMAIN @ |-> [@[i] EXCEPT !.read = TRUE]],
        !.unreadCount = 0]

removeNotification(state, id) ==
    LET i == findIndex(state.notifications, id)
        list == state.notifications
    IN  IF i # 0
            THEN [state EXCEPT
                    !.unreadCount = IF ~list[i].read THEN MathMax(0, @ - 1) ELSE @,
                    !.notifications = SubSeq(list, 1, i - 1) \o SubSeq(list, i + 1, Len(list))]
        ELSE state

clearNotifications(state) == [state EXCEPT !.notifications = <<>>, !.unreadCount = 0]

clearOldNotifications(state, payload, t) ==
    LET cutoffTime == t - payload
        Old(n) == n.timestamp < cutoffTime /\ ~n.persistent
        Kept(n) == n.timestamp >= cutoffTime \/ n.persistent
        unreadRemoved == UnreadIn(Filter(state.notifications, Old))
    IN  [state EXCEPT !.notifications = Filter(@, Kept),
                      !.unreadCount = MathMax(0, @ - unreadRemoved)]

updateSettings(state, payload) == [state EXCEPT !.settings = Spread(@, payload)]

addNotifications(state, newNotifications) ==
    limit([state EXCEPT
            !.notifications = newNotifications \o @,
            !.unreadCount = @ + UnreadIn(newNotifications)])

markMultipleAsRead(state, ids) ==
    LET list == state.notifications
        marked == {i \in DOMAIN list : list[i].id \in ids /\ ~list[i].read}
    IN  [state EXCEPT
            !.notifications = [i \in DOMAIN list |->
                                IF i \in marked THEN [list[i] EXCEPT !.read = TRUE]
                                ELSE list[i]],
            !.unreadCount = MathMax(0, @ - Cardinality(marked))]

NotificationInit ==
    /\ now = 0
    /\ ticks = 0
    /\ TokIdle
    /\ GateIdle
    /\ RateIdle
    /\ LimitIdle
    /\ log = <<>>
    /\ AdminIdle
    /\ auth = NoSlice
    /\ theme = NoSlice
    /\ classList = {}
    /\ localStorage \in {EmptyObj, [k \in {"notificationSound"} |-> "false"]}
    /\ notifications =
            [notifications |-> <<>>,
             unreadCount |-> 0,
             settings |->
                [enableSound |-> JSONparse(getItemOr(localStorage, "notificationSound", "true")),
                 enableDesktop |-> JSONparse(getItemOr(localStorage, "notificationDesktop", "true")),
                 enableEmail |-> JSONparse(getItemOr(localStorage, "notificationEmail", "true")),
                 maxNotifications |-> DEFAULT_MAX_NOTIFICATIONS]]

NotificationOnly == <<ticks, input, made, presented, vresult, rresult, eresult,
                      gateVars, rateVars, limitVars, adminVars, log,
                      auth, theme, classList>>

\* the list stays within MaxList entries, so that the state space is finite
Fits(added) ==
    MathMin(Len(notifications.notifications) + added, notifications.settings.maxNotifications)
        <= MaxList

\* Date.now() moves on
ClockAdvances ==
    /\ now < MaxClock
    /\ now' = now + 1
    /\ UNCHANGED <<NotificationOnly, notifications, localStorage>>

\* prepare: nanoid() and Date.now(), read: false, then the caller's fields
AddNotification ==
    /\ Fits(1)
    /\ \E id \in NotificationIds, persistent \in BOOLEAN :
            /\ \A i \in DOMAIN notifications.notifications :
                    notifications.notifications[i].id # id
            /\ notifications' =
                    addNotification(notifications,
                                    [id |-> id, timestamp |-> now, read |-> FALSE,
                                     persistent |-> persistent])
    /\ UNCHANGED <<now, NotificationOnly, localStorage>>

\* the notifications a bulk addition carries: any ids, read or unread
BulkItems ==
    {[id |-> id, timestamp |-> now, read |-> rd, persistent |-> FALSE] :
        id \in NotificationIds, rd \in BOOLEAN}

AddNotifications ==
    /\ \E newNotifications \in {<<a>> : a \in BulkItems}
                                \cup {<<a, b>> : a \in BulkItems, b \in BulkItems} :
            /\ Fits(Len(newNotifications))
            /\ notifications' = addNotifications(notifications, newNotifications)
    /\ UNCHANGED <<now, NotificationOnly, localStorage>>

MarkAsRead ==
    /\ \E id \in NotificationIds : notifications' = markAsRead(notifications, id)
    /\ UNCHANGED <<now, NotificationOnly, localStorage>>

MarkAllAsRead ==
    /\ notifications' = markAllAsRead(notifications)
    /\ UNCHANGED <<now, NotificationOnly, localStorage>>

MarkMultipleAsRead ==
    /\ \E ids \in SUBSET NotificationIds :
            notifications' = markMultipleAsRead(notifications, ids)
    /\ UNCHANGED <<now, NotificationOnly, localStorage>>

RemoveNotification ==
    /\ \E id \in NotificationIds : notifications' = removeNotification(notifications, id)
    /\ UNCHANGED <<now, NotificationOnly, localStorage>>

ClearNotifications ==
    /\ notifications' = clearNotifications(notifications)
    /\ UNCHANGED <<now, NotificationOnly, localStorage>>

ClearOldNotifications ==
    /\ \E payload \in 0 .. MaxClock :
            notifications' = clearOldNotifications(notifications, payload, now)
    /\ UNCHANGED <<now, NotificationOnly, localStorage>>

SettingsPayloads ==
    {[maxNotifications |-> c] : c \in 0 .. MaxCap} \cup {[enableSound |-> b] : b \in BOOLEAN}

UpdateSettings ==
    /\ \E payload \in SettingsPayloads :
            /\ notifications' = updateSettings(notifications, payload)
            /\ localStorage' =
                    IF "enableSound" \in DOMAIN payload
                        THEN setItem(localStorage, "notificationSound",
                                     JSONstringify(payload.enableSound))
                    ELSE localStorage
    /\ UNCHANGED <<now, NotificationOnly>>

NotificationNext ==
    \/ ClockAdvances
    \/ AddNotification
    \/ AddNotifications
    \/ MarkAsRead
    \/ MarkAllAsRead
    \/ MarkMultipleAsRead
    \/ RemoveNotification
    \/ ClearNotifications
    \/ ClearOldNotifications
    \/ UpdateSettings

SpecNotifications == NotificationInit /\ [][NotificationNext]_vars

\* C35: after any sequence of actions of the notifications reducer,
\* unreadCount is the number of notifications in the list whose read flag
\* is false.
C35_UnreadCountIsExact ==
    notifications.unreadCount
        = Cardinality({i \in DOMAIN notifications.notifications :
                        notifications.notifications[i].read = FALSE})

C35_Witness ==
    /\ Len(notifications.notifications) = MaxCap
    /\ notifications.settings.maxNotifications = MaxCap
    /\ notifications.unreadCount = 1
    /\ notifications.notifications[1].read

\* C36: after any sequence of actions the list holds at most
\* settings.maxNotifications entries.
C36_ListWithinCap ==
    Len(notifications.notifications) <= notifications.settings.maxNotifications

====
